---- MODULE Spec2Model ----
(***************************************************************************)
(* Page-side scripts of messenger-desktop (src/src/injection/*.ts): the    *)
(* privacy guard (current and earlier variant), the unread counter, the    *)
(* theme injector and the notification interceptors, each as a state       *)
(* machine over the page's globals (document.head, the two network         *)
(* primitives, window.Notification, the module-level variables of each     *)
(* script); the path of a privacy setting from the settings page to the    *)
(* embedded page; and the platform switch (selector script and the         *)
(* select_platform command of tasks/r19-spec.md).                          *)
(***************************************************************************)
EXTENDS Integers, Sequences, FiniteSets, TLC

VARIABLES
    tauri,            \* window.__TAURI__ is present in the page
    head,             \* children of document.head, in document order
    console,          \* what the last handler wrote to the console
    \* ---- privacy-guard.ts
    privacyConfig,    \* let privacyConfig
    styleElements,    \* let styleElements (node ids)
    _xhrPatched,      \* let _xhrPatched
    _fetchPatched,    \* let _fetchPatched
    xhrOpen,          \* XMLHttpRequest.prototype.open (layers, outermost first)
    windowFetch,      \* window.fetch (layers, outermost first)
    privacyInits,     \* how many times init() of the privacy guard ran
    privacyListeners, \* 'update-privacy' listeners registered
    frozenPrimitives, \* the primitives the page has made read-only
    patched,          \* window.__MESSENGER_DESKTOP_PATCHED__
    toggleEvent,      \* the payload of the last toggle-notifications event, if any
    bootstrap,        \* what the last run of the DOMContentLoaded handler did
    keydownListeners, \* 'keydown' listeners registered on the document
    netCall,          \* the page's last network call and what became of it
    \* ---- settings.ts and the native side of the update-privacy push
    uiToggles,        \* the four privacy checkboxes of the settings page
    commands,         \* set_privacy commands issued and not yet handled
    pushed,           \* configs the native side has pushed; the version is the index
    inflight,         \* versions of update-privacy events still deliverable
    maxDelivered,     \* the highest version the page has handled
    \* ---- unread-counter.ts
    lastUnreadCount,  \* let lastUnreadCount
    title,            \* document.title, a sequence of characters
    titleElement,     \* the document has a <title> element
    titleObservers,   \* MutationObservers observing the <title> element
    pollTimers,       \* live setInterval timers
    pendingMutations, \* mutation records queued for the observers
    unreadInits,      \* how many times init() of the unread counter ran
    sent,             \* counts of the update_unread_count commands issued, in order
    parsed,           \* result of the last parseUnreadCount call
    \* ---- theme-injector.ts
    currentTheme,     \* let currentTheme
    styleElement,     \* let styleElement (a node id, or NoNode for null)
    themeInits,       \* how many times init() of the theme injector ran
    themeListeners,   \* 'set-theme' listeners registered
    themeEvent,       \* payload of the last set-theme event handled
    \* ---- the page's lifetime
    unloaded,         \* the page's unload event has fired
    \* ---- notification-interceptor.ts and the app-side interceptor
    downlevel,          \* the bundle was emitted for ES5: arrows became functions
    windowNotification, \* window.Notification (layers, outermost first)
    interceptor,        \* let interceptor is set
    originalNotification, \* this.originalNotification
    enabled,            \* this.enabled
    toggleListeners,    \* 'toggle-notifications' listeners registered
    shimPermission,     \* the permission property assigned on the shim
    pagePermission,     \* the notification permission the browser holds for the page
    pluginPermission,   \* the permission the notification plugin holds
    showListeners,      \* 'show-notification' listeners registered
    notifInits,         \* how many times the interceptor was set up
    lastConstruct,      \* the page's last notification construction and its effects
    \* ---- platform selector (selector script) and select_platform (r19-spec.md)
    current,          \* PlatformState.current
    view,             \* what the main window shows: the selector or a platform
    storage,          \* per platform: its data directory exists
    calls,            \* the select_platform invocations, in the order issued
    steps,            \* the steps the invocations have run, in the order run
    selector,         \* the element with id 'selector' is in the document
    errorMsg,         \* text of the element with id 'error-msg'
    lastClear         \* the last clear_platform_session called on its own

vars == <<tauri, head, console, privacyConfig, styleElements, _xhrPatched,
          _fetchPatched, xhrOpen, windowFetch, privacyInits, privacyListeners,
          netCall, uiToggles, commands, pushed, inflight, maxDelivered,
          lastUnreadCount, title, titleElement, titleObservers, pollTimers,
          pendingMutations, unreadInits, sent, parsed, currentTheme, styleElement, themeInits,
          themeListeners, themeEvent, unloaded, downlevel, windowNotification,
          interceptor, originalNotification, enabled, toggleListeners,
          shimPermission, pagePermission, pluginPermission, showListeners,
          notifInits, lastConstruct, current, view, storage, calls, steps,
          selector, errorMsg, lastClear, frozenPrimitives, bootstrap,
          keydownListeners, toggleEvent, patched>>

bootVars == <<bootstrap, keydownListeners>>

privacyVars == <<privacyConfig, styleElements, _xhrPatched, _fetchPatched,
                 xhrOpen, windowFetch, privacyInits, privacyListeners,
                 frozenPrimitives>>

pushVars == <<uiToggles, commands, pushed, inflight, maxDelivered>>

unreadVars == <<lastUnreadCount, title, titleElement, titleObservers, pollTimers,
                pendingMutations, unreadInits, sent, parsed>>

themeVars == <<currentTheme, styleElement, themeInits, themeListeners, themeEvent>>

platformVars == <<current, view, storage, calls, steps, selector, errorMsg,
                  lastClear>>

notifVars == <<downlevel, windowNotification, interceptor, originalNotification,
               enabled, toggleListeners, shimPermission, pagePermission,
               pluginPermission, showListeners, notifInits, lastConstruct,
               toggleEvent, patched>>

----------------------------------------------------------------------------
\* Bounds of the model

MaxInits == 2

\* patch layers a primitive may carry before the model stops stacking more
\* How many times the bootstrap script is injected into one document
MaxBoots == 1

MaxLayers == 3

\* select_platform invocations issued in a run
MaxSwitches == 2

\* select_platform invocations issued one after the other in a run
MaxTrips == 3

MaxVersion == 2

MaxSent == 3

MaxPending == 2

MaxTitleLen == 4

----------------------------------------------------------------------------
\* General helpers

Range(s) == {s[i] : i \in DOMAIN s}

RECURSIVE SeqsUpTo(_, _)
SeqsUpTo(S, n) ==
    IF n = 0 THEN {<<>>}
    ELSE LET shorter == SeqsUpTo(S, n - 1)
         IN  shorter \cup {Append(s, x) : s \in shorter, x \in S}

\* document.createElement: a node identity not in use
FreshNode(hd) == CHOOSE n \in 1..(Len(hd) + 1) : \A i \in DOMAIN hd : hd[i].nid # n

\* el.remove() for every el in the given set of node ids
RemoveNodes(hd, ids) == SelectSeq(hd, LAMBDA n : n.nid \notin ids)

----------------------------------------------------------------------------
\* privacy-guard.ts

Toggles == {"blockTyping", "blockReadReceipts", "hideLastActive", "blockLinkPreviews"}

defaultConfig == [t \in Toggles |-> TRUE]

\* Partial<PrivacyConfig>
Payloads == UNION {[S -> BOOLEAN] : S \in SUBSET Toggles}

\* the payload merged into the defaults instead of the current config
SpreadOverDefaults(cfg, newConfig) ==
    [k \in Toggles |-> IF k \in DOMAIN newConfig THEN newConfig[k] ELSE defaultConfig[k]]

\* { ...privacyConfig, ...newConfig }
Spread(cfg, newConfig) ==
    [t \in Toggles |-> IF t \in DOMAIN newConfig THEN newConfig[t] ELSE cfg[t]]

\* The browser's own primitive: a function value with no patch layer
NativeFn == <<>>

\* const _originalXhrOpen / _originalFetch: captured when the module loads
_originalXhrOpen == NativeFn

_originalFetch == NativeFn

SeenCss == "[aria-label*=Seen]"

LastActiveCss == "[aria-label*=last active]"

PreviewCss == "[data-preview=true]"

\* The module's state as one record, so that a handler is a function of it
PrivacyState ==
    [cfg |-> privacyConfig, styles |-> styleElements, head |-> head,
     xhrPatched |-> _xhrPatched, fetchPatched |-> _fetchPatched,
     xhrOpen |-> xhrOpen, fetch |-> windowFetch, console |-> <<>>, threw |-> FALSE]

createStyleElement(s, css) ==
    LET n == FreshNode(s.head)
    IN  [s EXCEPT !.head = Append(@, [nid |-> n, id |-> "", text |-> css]),
                  !.styles = Append(@, n)]

\* the list emptied without detaching its nodes
ClearStylesKeepsNodes(s) == [s EXCEPT !.styles = <<>>]

\* styleElements.forEach(el => el.remove()); styleElements = []
ClearStyles(s) ==
    [s EXCEPT !.head = RemoveNodes(@, Range(s.styles)), !.styles = <<>>]

\* the patch block without the once-only marker, wrapping whatever is installed
InstallXhrPatchRecapture(s) ==
    [s EXCEPT !.xhrOpen = <<"guard">> \o s.xhrOpen, !.xhrPatched = TRUE]

\* The module is strict code: assigning to a property the page has made
\* read-only throws TypeError, and the statements after it do not run
InstallXhrPatch(s) ==
    IF s.xhrPatched THEN s
    ELSE IF "xhr" \in frozenPrimitives THEN [s EXCEPT !.threw = TRUE]
    ELSE [s EXCEPT !.xhrOpen = <<"guard">> \o _originalXhrOpen, !.xhrPatched = TRUE]

InstallFetchPatch(s) ==
    IF s.threw \/ s.fetchPatched THEN s
    ELSE IF "fetch" \in frozenPrimitives THEN [s EXCEPT !.threw = TRUE]
    ELSE [s EXCEPT !.fetch = <<"guard">> \o _originalFetch, !.fetchPatched = TRUE]

PatchNetwork(s) ==
    IF s.cfg["blockTyping"]
    THEN LET p == InstallFetchPatch(InstallXhrPatch(s))
         IN  IF p.threw THEN p
             ELSE [p EXCEPT !.console = Append(@, "typing-blocking-enabled")]
    ELSE s

StyleRule(s, toggle, css, msg) ==
    IF s.cfg[toggle]
    THEN LET c == createStyleElement(s, css)
         IN  [c EXCEPT !.console = Append(@, msg)]
    ELSE s

StyleRules(s) ==
    IF s.threw THEN s
    ELSE StyleRule(
           StyleRule(
             StyleRule(s, "blockReadReceipts", SeenCss, "read-receipts-hidden"),
             "hideLastActive", LastActiveCss, "last-active-hidden"),
           "blockLinkPreviews", PreviewCss, "link-previews-hidden")

applyPrivacyRules(s) == StyleRules(PatchNetwork(ClearStyles(s)))

updateConfig(s, newConfig) ==
    applyPrivacyRules([s EXCEPT !.cfg = Spread(@, newConfig)])

\* An event reaches every registered listener, one after the other
RECURSIVE DeliverUpdate(_, _, _)
DeliverUpdate(s, payload, listeners) ==
    IF listeners = 0 THEN s
    ELSE DeliverUpdate(updateConfig([s EXCEPT !.threw = FALSE], payload),
                       payload, listeners - 1)

SetPrivacyState(s) ==
    /\ UNCHANGED frozenPrimitives
    /\ privacyConfig' = s.cfg
    /\ styleElements' = s.styles
    /\ head' = s.head
    /\ _xhrPatched' = s.xhrPatched
    /\ _fetchPatched' = s.fetchPatched
    /\ xhrOpen' = s.xhrOpen
    /\ windowFetch' = s.fetch
    /\ console' = s.console

NoCall == [api |-> "none"]

\* export function init(): when applyPrivacyRules throws, the listener is
\* not registered and the exception goes to the caller
initPrivacy(s) ==
    LET a == applyPrivacyRules(s)
    IN  IF a.threw THEN a
        ELSE [a EXCEPT !.console =
                Append(@, IF tauri THEN "listener-initialized" ELSE "listener-failed")]

\* try { initPrivacy(); } catch(e) { console.error('[injection] privacy:', e); }
PrivacyInit ==
    /\ privacyInits < MaxInits
    /\ LET s == initPrivacy(PrivacyState)
       IN  /\ SetPrivacyState(
                IF s.threw THEN [s EXCEPT !.console = Append(@, "injection-privacy-error")]
                ELSE s)
           /\ privacyListeners' =
                IF tauri /\ ~s.threw THEN privacyListeners + 1 ELSE privacyListeners
    /\ privacyInits' = privacyInits + 1
    /\ netCall' = NoCall
    /\ UNCHANGED <<platformVars, notifVars, unloaded, tauri, bootVars, pushVars, unreadVars, themeVars>>

\* the 'update-privacy' listener: (e) => updateConfig(e.payload)
UpdatePrivacy ==
    /\ privacyListeners > 0
    /\ \E payload \in Payloads :
         SetPrivacyState(DeliverUpdate(PrivacyState, payload, privacyListeners))
    /\ netCall' = NoCall
    /\ UNCHANGED <<platformVars, notifVars, unloaded, tauri, bootVars, privacyInits, privacyListeners, pushVars, unreadVars, themeVars>>

\* ---- the earlier privacy-guard.ts, whose applyPrivacyRules captures the
\* originals itself and keeps no patched markers

\* if (privacyConfig.blockTyping) { const originalOpen = ...; const originalFetch = ...; }
PatchNetworkLegacy(s) ==
    IF s.cfg["blockTyping"]
    THEN [s EXCEPT !.xhrOpen = <<"guard">> \o s.xhrOpen,
                   !.fetch = <<"guard">> \o s.fetch,
                   !.console = Append(@, "typing-blocking-enabled")]
    ELSE s

applyPrivacyRulesLegacy(s) == StyleRules(PatchNetworkLegacy(ClearStyles(s)))

updateConfigLegacy(s, newConfig) ==
    applyPrivacyRulesLegacy([s EXCEPT !.cfg = Spread(@, newConfig)])

RECURSIVE DeliverUpdateLegacy(_, _, _)
DeliverUpdateLegacy(s, payload, listeners) ==
    IF listeners = 0 THEN s
    ELSE DeliverUpdateLegacy(updateConfigLegacy(s, payload), payload, listeners - 1)

\* export function init() of the earlier guard
PrivacyInitLegacy ==
    /\ privacyInits < MaxInits
    /\ LET s == applyPrivacyRulesLegacy(PrivacyState)
       IN  /\ Len(s.xhrOpen) <= MaxLayers
           /\ SetPrivacyState(
                [s EXCEPT !.console =
                   Append(@, IF tauri THEN "listener-initialized" ELSE "listener-failed")])
    /\ privacyInits' = privacyInits + 1
    /\ privacyListeners' = IF tauri THEN privacyListeners + 1 ELSE privacyListeners
    /\ netCall' = NoCall
    /\ UNCHANGED <<platformVars, notifVars, unloaded, tauri, bootVars, pushVars, unreadVars, themeVars>>

\* the 'update-privacy' listener of the earlier guard
UpdatePrivacyLegacy ==
    /\ privacyListeners > 0
    /\ \E payload \in Payloads :
         LET s == DeliverUpdateLegacy(PrivacyState, payload, privacyListeners)
         IN  /\ Len(s.xhrOpen) <= MaxLayers
             /\ SetPrivacyState(s)
    /\ netCall' = NoCall
    /\ UNCHANGED <<platformVars, notifVars, unloaded, tauri, bootVars, privacyInits, privacyListeners, pushVars,
                   unreadVars, themeVars>>

----------------------------------------------------------------------------
\* The page's network calls through the (possibly patched) primitives

\* The URLs the page requests, each a sequence of tokens: with and without
\* a marker, and with the marker at the start, in the middle and at the end
Hrefs == {<<"x">>, <<"typing">>, <<"x", "composing">>, <<"typing", "x">>,
          <<"x", "composing", "x">>}

\* String.prototype.includes over a URL made of tokens
Includes(href, marker) == \E i \in DOMAIN href : href[i] = marker

HasMarker(href) == Includes(href, "typing") \/ Includes(href, "composing")

XhrUrls == [kind : {"string", "URL"}, href : Hrefs]

FetchInputs == [kind : {"string", "Request", "URL"}, href : Hrefs]

XhrArgs == [method : {"POST"}, url : XhrUrls]

\* a RequestInit whose body carries the typing marker
InitTypingBody == "init{body:typing}"

\* the init argument: absent, without a body, or with a typing body
FetchInits == {"undefined", "init", InitTypingBody}

FetchArgs == [input : FetchInputs, init : FetchInits]

\* What XMLHttpRequest.prototype.open does when called as fn.apply(recv, args):
\* orig lists the invocations of the browser's own open.
RECURSIVE XhrOpenCall(_, _, _)
XhrOpenCall(fn, recv, args) ==
    IF fn = NativeFn
    THEN [orig |-> <<[recv |-> recv, args |-> args]>>, ret |-> "opened", log |-> <<>>]
    ELSE IF args.url.kind = "string" /\ HasMarker(args.url.href)
         THEN [orig |-> <<>>, ret |-> "undefined", log |-> <<"blocked-request">>]
         ELSE XhrOpenCall(Tail(fn), recv, args)

\* the patched fetch calling the original without the caller's receiver
RECURSIVE FetchCallLosesThis(_, _, _)
FetchCallLosesThis(fn, recv, args) ==
    IF fn = NativeFn
    THEN [orig |-> <<[recv |-> recv, args |-> args]>>, ret |-> "response", log |-> <<>>]
    ELSE LET url == IF args.input.kind \in {"string", "Request"} THEN args.input.href
                    ELSE <<>>
         IN  IF url # <<>> /\ (\E i \in DOMAIN url : url[i] \in {"typing", "composing"})
             THEN [orig |-> <<>>, ret |-> "rejected", log |-> <<"blocked-fetch">>]
             ELSE FetchCallLosesThis(Tail(fn), "window", args)

\* What window.fetch does when called as fn.apply(recv, [input, init])
RECURSIVE FetchCall(_, _, _)
FetchCall(fn, recv, args) ==
    IF fn = NativeFn
    THEN [orig |-> <<[recv |-> recv, args |-> args]>>, ret |-> "response", log |-> <<>>]
    ELSE LET url == IF args.input.kind = "string" THEN args.input.href
                    ELSE IF args.input.kind = "Request" THEN args.input.href
                    ELSE <<>>
         IN  IF url # <<>> /\ HasMarker(url)
             THEN [orig |-> <<>>, ret |-> "rejected", log |-> <<"blocked-fetch">>]
             ELSE FetchCall(Tail(fn), recv, [input |-> args.input, init |-> args.init])

\* the page: xhr.open(method, url)
PageXhrOpen ==
    /\ \E recv \in {"xhr1", "xhr2"}, args \in XhrArgs :
         LET r == XhrOpenCall(xhrOpen, recv, args)
         IN  /\ netCall' = [api |-> "xhr", recv |-> recv, args |-> args,
                            kind |-> args.url.kind, href |-> args.url.href, orig |-> r.orig, ret |-> r.ret]
             /\ console' = r.log
    /\ UNCHANGED <<platformVars, notifVars, unloaded, tauri, bootVars, head, privacyVars, pushVars, unreadVars, themeVars>>

\* the page: fetch(input, init)
PageFetch ==
    /\ \E recv \in {"window", "undefined"}, args \in FetchArgs :
         LET r == FetchCall(windowFetch, recv, args)
         IN  /\ netCall' = [api |-> "fetch", recv |-> recv, args |-> args,
                            kind |-> args.input.kind, href |-> args.input.href, orig |-> r.orig, ret |-> r.ret]
             /\ console' = r.log
    /\ UNCHANGED <<platformVars, notifVars, unloaded, tauri, bootVars, head, privacyVars, pushVars, unreadVars, themeVars>>

----------------------------------------------------------------------------
\* The path of a PrivacyConfig push: settings page -> set_privacy command ->
\* native handler -> update-privacy event -> the page's listener

\* settings.ts, 'change' on one of the four checkboxes: all four are read and
\* sent in one set_privacy command. The command itself carries no number; seq
\* only keeps two pending commands with equal toggles apart.
SettingsToggleChange ==
    /\ Cardinality(commands) + Len(pushed) < MaxVersion
    /\ \E t \in Toggles :
         LET now == [uiToggles EXCEPT ![t] = ~@]
         IN  /\ uiToggles' = now
             /\ commands' = commands \cup {[seq |-> Cardinality(commands) + Len(pushed) + 1,
                                           toggles |-> now]}
    /\ UNCHANGED <<platformVars, notifVars, unloaded, tauri, bootVars, head, console, privacyVars, netCall, pushed, inflight,
                   maxDelivered, unreadVars, themeVars>>

\* The native set_privacy handler: the next version of the configuration is
\* recorded and pushed as an update-privacy event. Commands carry no order of
\* their own, so any pending one may be the next handled.
NativeSetPrivacy ==
    /\ \E c \in commands :
         /\ commands' = commands \ {c}
         /\ pushed' = Append(pushed, c.toggles)
         /\ inflight' = inflight \cup {Len(pushed) + 1}
    /\ UNCHANGED <<platformVars, notifVars, unloaded, tauri, bootVars, head, console, privacyVars, netCall, uiToggles, maxDelivered,
                   unreadVars, themeVars>>

\* An update-privacy event in flight reaches the page's listeners. Delivery is
\* at least once and unordered: the event may stay deliverable.
DeliverPush ==
    /\ privacyListeners > 0
    /\ \E v \in inflight, again \in BOOLEAN :
         /\ SetPrivacyState(DeliverUpdate(PrivacyState, pushed[v], privacyListeners))
         /\ inflight' = IF again THEN inflight ELSE inflight \ {v}
         /\ maxDelivered' = IF v > maxDelivered THEN v ELSE maxDelivered
    /\ netCall' = NoCall
    /\ UNCHANGED <<platformVars, notifVars, unloaded, tauri, bootVars, privacyInits, privacyListeners, uiToggles, commands, pushed,
                   unreadVars, themeVars>>

----------------------------------------------------------------------------
\* unread-counter.ts

\* A title is a sequence of characters; each character is a one-element token.
\* MidDot is the separator U+00B7, Letter any character the patterns ignore.
MidDot == "U+00B7"

Letter == "M"

Digits == {"0", "1", "2", "7"}

Chars == {"(", ")", MidDot, " ", Letter} \cup Digits

IsDigit(c) == c \in Digits

\* \s
IsSpace(c) == c = " "

DigitValue(c) == CASE c = "0" -> 0 [] c = "1" -> 1 [] c = "2" -> 2 [] c = "7" -> 7

\* \d+ and \s* are greedy: the longest run from position i
RECURSIVE DigitRun(_, _)
DigitRun(t, i) ==
    IF i > Len(t) \/ ~IsDigit(t[i]) THEN 0 ELSE 1 + DigitRun(t, i + 1)

RECURSIVE SpaceRun(_, _)
SpaceRun(t, i) ==
    IF i > Len(t) \/ ~IsSpace(t[i]) THEN 0 ELSE 1 + SpaceRun(t, i + 1)

\* parseInt(digits, 10)
RECURSIVE parseInt(_)
parseInt(digits) ==
    IF digits = <<>> THEN 0
    ELSE 10 * parseInt(SubSeq(digits, 1, Len(digits) - 1)) + DigitValue(digits[Len(digits)])

\* const parenPattern = /\((\d+)\)/ tried at position i
ParenMatchAt(t, i) ==
    /\ t[i] = "("
    /\ DigitRun(t, i + 1) >= 1
    /\ i + 1 + DigitRun(t, i + 1) <= Len(t)
    /\ t[i + 1 + DigitRun(t, i + 1)] = ")"

\* const dotPattern = /·\s*(\d+)/ tried at position i
DotMatchAt(t, i) ==
    /\ t[i] = MidDot
    /\ DigitRun(t, i + 1 + SpaceRun(t, i + 1)) >= 1

\* String.prototype.match without the g flag: the leftmost position that
\* matches, 0 when none does
Leftmost(positions) ==
    IF positions = {} THEN 0
    ELSE CHOOSE i \in positions : \A j \in positions : i <= j

\* null, and a returned number n
Null == <<>>

Some(n) == <<n>>

\* the two patterns tried in the other order
parseUnreadCountDotFirst(t) ==
    LET p == Leftmost({i \in 1..Len(t) : ParenMatchAt(t, i)})
        d == Leftmost({i \in 1..Len(t) : DotMatchAt(t, i)})
        k == d + 1 + SpaceRun(t, d + 1)
    IN  IF d # 0 THEN Some(parseInt(SubSeq(t, k, k + DigitRun(t, k) - 1)))
        ELSE IF p # 0 THEN Some(parseInt(SubSeq(t, p + 1, p + DigitRun(t, p + 1))))
        ELSE Null

parseUnreadCount(t) ==
    LET p == Leftmost({i \in 1..Len(t) : ParenMatchAt(t, i)})
        d == Leftmost({i \in 1..Len(t) : DotMatchAt(t, i)})
        k == d + 1 + SpaceRun(t, d + 1)
    IN  IF p # 0 THEN Some(parseInt(SubSeq(t, p + 1, p + DigitRun(t, p + 1))))
        ELSE IF d # 0 THEN Some(parseInt(SubSeq(t, k, k + DigitRun(t, k) - 1)))
        ELSE Null

\* The titles the page shows while the counter runs
T_Paren0 == <<"(", "0", ")", " ", Letter>>

T_Paren1 == <<"(", "1", ")", " ", Letter>>

T_Paren2 == <<"(", "2", ")", " ", Letter>>

T_Plain == <<Letter>>

T_Dot1 == <<Letter, " ", MidDot, " ", "1">>

T_Dot7 == <<Letter, " ", MidDot, " ", "7">>

UnreadTitles == {T_Paren0, T_Paren1, T_Paren2, T_Plain, T_Dot1, T_Dot7}

\* parseUnreadCount of each of these titles and of the empty title
TitleCount == [t \in UnreadTitles \cup {<<>>} |-> parseUnreadCount(t)]

UnreadState == [last |-> lastUnreadCount, sent |-> sent, console |-> <<>>]

\* the update without the comparison against lastUnreadCount
updateUnreadCountNoGuard(s, count) ==
    [s EXCEPT !.last = count,
              !.sent = IF tauri THEN Append(@, count) ELSE @,
              !.console = Append(@, IF tauri THEN "count-updated" ELSE "count-failed")]

\* tauri false: window.__TAURI__ is undefined, invoke throws and the catch logs
updateUnreadCount(s, count) ==
    IF count = s.last THEN s
    ELSE [s EXCEPT !.last = count,
                   !.sent = IF tauri THEN Append(@, count) ELSE @,
                   !.console = Append(@, IF tauri THEN "count-updated" ELSE "count-failed")]

\* a title without a count taken as a count of zero
ObserveNullAsZero(s, t) ==
    LET count == parseUnreadCount(t)
    IN  updateUnreadCount(s, IF count # Null THEN count[1] ELSE 0)

\* const count = parseUnreadCount(...); if (count !== null) updateUnreadCount(count)
Observe(s, t) ==
    LET count == TitleCount[t]
    IN  IF count # Null THEN updateUnreadCount(s, count[1]) ELSE s

RECURSIVE ObserveTimes(_, _, _)
ObserveTimes(s, t, n) ==
    IF n = 0 THEN s ELSE ObserveTimes(Observe(s, t), t, n - 1)

SetUnreadState(s) ==
    /\ lastUnreadCount' = s.last
    /\ sent' = s.sent
    /\ console' = s.console

\* export function init(): a new observer on the <title> element if there is
\* one, a new interval timer, and the initial check
initUnread(s) ==
    LET o == Observe(s, title)
    IN  IF titleElement
        THEN [o EXCEPT !.console = <<"observer-initialized">> \o @]
        ELSE o

\* init() without the setInterval call
initUnreadTimersNoPoll ==
    /\ unreadInits' = unreadInits + 1
    /\ titleObservers' = IF titleElement THEN titleObservers + 1 ELSE titleObservers
    /\ pollTimers' = pollTimers

\* the observer and the timer init() starts
initUnreadTimers ==
    /\ unreadInits' = unreadInits + 1
    /\ titleObservers' = IF titleElement THEN titleObservers + 1 ELSE titleObservers
    /\ pollTimers' = pollTimers + 1

UnreadInit ==
    /\ ~unloaded
    /\ unreadInits < MaxInits
    /\ initUnreadTimers
    /\ SetUnreadState(initUnread(UnreadState))
    /\ UNCHANGED <<platformVars, notifVars, unloaded, tauri, bootVars, head, privacyVars, netCall, pushVars, themeVars, title,
                   titleElement, pendingMutations, parsed>>

\* the page: document.title = t. The <title> element's child is replaced (the
\* element is created when missing); every observer gets a childList record.
SetTitle ==
    /\ ~unloaded
    /\ Len(sent) < MaxSent
    /\ pendingMutations < MaxPending
    /\ \E t \in UnreadTitles : title' = t
    /\ titleElement' = TRUE
    /\ pendingMutations' = IF titleObservers > 0 THEN pendingMutations + 1 ELSE 0
    /\ UNCHANGED <<platformVars, notifVars, unloaded, tauri, bootVars, head, console, privacyVars, netCall, pushVars, themeVars,
                   lastUnreadCount, titleObservers, pollTimers, unreadInits, sent, parsed>>

\* the MutationObserver callbacks, at the microtask checkpoint: each observer
\* walks its records and reads mutation.target.textContent, the current title
ObserverCallback ==
    /\ ~unloaded
    /\ pendingMutations > 0
    /\ SetUnreadState(ObserveTimes(UnreadState, title, titleObservers * pendingMutations))
    /\ pendingMutations' = 0
    /\ UNCHANGED <<platformVars, notifVars, unloaded, tauri, bootVars, head, privacyVars, netCall, pushVars, themeVars, title,
                   titleElement, titleObservers, pollTimers, unreadInits, parsed>>

\* one setInterval callback; a task, so it runs after pending microtasks
PollTick ==
    /\ ~unloaded
    /\ pollTimers > 0
    /\ pendingMutations = 0
    /\ SetUnreadState(Observe(UnreadState, title))
    /\ UNCHANGED <<platformVars, notifVars, unloaded, tauri, bootVars, head, privacyVars, netCall, pushVars, themeVars, title,
                   titleElement, titleObservers, pollTimers, pendingMutations,
                   unreadInits, parsed>>

\* the page is torn down: its unload event fires and the document is
\* discarded, after which none of its scripts, observers or timers run.
\* init() registers no unload listener and drops the handle setInterval
\* returns, so no code of the module runs here and nothing is cancelled.
PageUnload ==
    /\ ~unloaded
    /\ unloaded' = TRUE
    /\ UNCHANGED <<platformVars, notifVars, tauri, bootVars, head, console, privacyVars, netCall, pushVars,
                   themeVars, unreadVars>>

\* a call of parseUnreadCount on its own
ParseTitle ==
    /\ ~parsed.done
    /\ parsed' = [done |-> TRUE, result |-> parseUnreadCount(title)]
    /\ UNCHANGED <<platformVars, notifVars, unloaded, tauri, bootVars, head, console, privacyVars, netCall, pushVars, themeVars,
                   lastUnreadCount, title, titleElement, titleObservers, pollTimers,
                   pendingMutations, unreadInits, sent>>

----------------------------------------------------------------------------
\* theme-injector.ts

NoNode == 0

Undefined == [type |-> "undefined", text |-> "undefined"]

Str(text) == [type |-> "string", text |-> text]

\* themes[themeName]: the table's own entries, then what a plain object
\* inherits from Object.prototype (constructor is one such key), else undefined
themes(themeName) ==
    CASE themeName = "light" -> Str("")
      [] themeName = "dark" -> Str("body{background:#1a1a2e}")
      [] themeName = "darker" -> Str("body{background:#0d0d1a}")
      [] themeName = "oled" -> Str("body{background:#000}")
      [] themeName = "constructor" ->
           [type |-> "function", text |-> "function Object() { [native code] }"]
      [] OTHER -> Undefined

\* !value is false
Truthy(v) == v.type = "function" \/ (v.type = "string" /\ v.text # "")

\* payloads of a set-theme event
ThemePayloads == {"light", "dark", "darker", "oled", "neon", "constructor",
                  "remove", "default"}

ThemeState ==
    [theme |-> currentTheme, el |-> styleElement, head |-> head, console |-> <<>>]

\* a new node on every call, whether or not one exists
themeCreateStyleElementAlways(s) ==
    LET n == FreshNode(s.head)
    IN  [s EXCEPT !.el = n,
                  !.head = Append(@, [nid |-> n, id |-> "messenger-theme", text |-> ""])]

themeCreateStyleElement(s) ==
    IF s.el = NoNode
    THEN LET n == FreshNode(s.head)
         IN  [s EXCEPT !.el = n,
                       !.head = Append(@, [nid |-> n, id |-> "messenger-theme", text |-> ""])]
    ELSE s

\* styleElement.textContent = value
SetTextContent(hd, nid, value) ==
    [i \in DOMAIN hd |-> IF hd[i].nid = nid THEN [hd[i] EXCEPT !.text = value] ELSE hd[i]]

applyTheme(s, themeName) ==
    IF ~Truthy(themes(themeName))
    THEN [s EXCEPT !.console = Append(@, "unknown-theme")]
    ELSE LET c == themeCreateStyleElement([s EXCEPT !.theme = themeName])
         IN  IF c.el # NoNode
             THEN [c EXCEPT !.head = SetTextContent(@, c.el, themes(themeName).text),
                            !.console = Append(@, "applied")]
             ELSE c

removeTheme(s) ==
    IF s.el # NoNode
    THEN [s EXCEPT !.head = RemoveNodes(@, {s.el}),
                   !.el = NoNode,
                   !.theme = "light",
                   !.console = Append(@, "removed")]
    ELSE s

\* the 'set-theme' listener
OnSetTheme(s, payload) ==
    IF payload = "remove" \/ payload = "default"
    THEN removeTheme(s)
    ELSE applyTheme(s, payload)

RECURSIVE DeliverTheme(_, _, _)
DeliverTheme(s, payload, listeners) ==
    IF listeners = 0 THEN s
    ELSE DeliverTheme(OnSetTheme(s, payload), payload, listeners - 1)

SetThemeState(s) ==
    /\ currentTheme' = s.theme
    /\ styleElement' = s.el
    /\ head' = s.head
    /\ console' = s.console

\* export function init()
initTheme(s) ==
    LET a == applyTheme(s, "light")
    IN  [a EXCEPT !.console =
           Append(@, IF tauri THEN "listener-initialized" ELSE "listener-failed")]

\* the listener init() registers
initThemeListener ==
    /\ themeInits' = themeInits + 1
    /\ themeListeners' = IF tauri THEN themeListeners + 1 ELSE themeListeners
    /\ themeEvent' = "(init)"

ThemeInit ==
    /\ themeInits < MaxInits
    /\ SetThemeState(initTheme(ThemeState))
    /\ initThemeListener
    /\ UNCHANGED <<platformVars, notifVars, unloaded, tauri, bootVars, privacyVars, netCall, pushVars, unreadVars>>

\* a set-theme event reaches every registered listener
SetTheme ==
    /\ themeListeners > 0
    /\ \E payload \in ThemePayloads :
         /\ SetThemeState(DeliverTheme(ThemeState, payload, themeListeners))
         /\ themeEvent' = payload
    /\ UNCHANGED <<platformVars, notifVars, unloaded, tauri, bootVars, privacyVars, netCall, pushVars, unreadVars, themeInits,
                   themeListeners>>

----------------------------------------------------------------------------
\* notification-interceptor.ts (class NotificationInterceptor) and the app-side
\* setupNotificationInterceptor

NotifTitles == {"Alice", "Bob"}

\* the options argument of a construction: absent, or an object whose body,
\* icon and tag are strings or missing
NotifOptions ==
    { [present |-> FALSE, body |-> Undefined, icon |-> Undefined, tag |-> Undefined],
      [present |-> TRUE, body |-> Str(""), icon |-> Undefined, tag |-> Undefined],
      [present |-> TRUE, body |-> Str("hi"), icon |-> Undefined, tag |-> Undefined],
      [present |-> TRUE, body |-> Str("hi"), icon |-> Str("a.png"), tag |-> Str("t1")] }

\* value || ''
OrEmpty(v) == IF Truthy(v) THEN v.text ELSE ""

\* the argument object of invoke('show_notification', ...)
show_notification(ntitle, options) ==
    [cmd |-> "show_notification", title |-> ntitle, body |-> OrEmpty(options.body),
     icon |-> OrEmpty(options.icon), tag |-> OrEmpty(options.tag)]

\* the argument object of invoke('handle_notification', { title, options })
handle_notification(ntitle, options) ==
    [cmd |-> "handle_notification", title |-> ntitle, options |-> options]

NoEffect ==
    [threw |-> FALSE, commands |-> <<>>, originals |-> 0, sends |-> 0, console |-> <<>>]

\* body of the function assigned to window.Notification by intercept()
ShimCall(ntitle, options) ==
    IF ~enabled THEN NoEffect
    ELSE IF ~tauri THEN [NoEffect EXCEPT !.console = <<"failed-to-show">>]
    ELSE [NoEffect EXCEPT !.commands = <<show_notification(ntitle, options)>>]

\* async function handleNotification, with the permission the plugin reports
\* once it has been asked; without the bridge isPermissionGranted rejects
handleNotification(ntitle, options, permission) ==
    IF ~tauri THEN NoEffect
    ELSE IF permission # "granted"
    THEN [NoEffect EXCEPT !.console = <<"permission-not-granted">>]
    ELSE [NoEffect EXCEPT !.commands = <<handle_notification(ntitle, options)>>,
                          !.sends = 1]

\* a webview without the Notification API: window.Notification is undefined
Absent == <<"undefined">>

\* value || null
OrNull(v) == IF Truthy(v) THEN v.text ELSE "null"

\* the argument object of the self-installing script's
\* tauriCore.invoke('handle_notification', ...)
handle_notification_v2(ntitle, options) ==
    [cmd |-> "handle_notification", title |-> ntitle,
     options |-> [body |-> OrEmpty(options.body), icon |-> OrNull(options.icon),
                  tag |-> OrNull(options.tag), silent |-> FALSE]]

\* a variant that invokes the bridge and constructs the original as well
IifeNotificationBoth(ntitle, options, hasOriginal, original) ==
    IF tauri
    THEN IF hasOriginal
         THEN [original EXCEPT !.commands = <<handle_notification_v2(ntitle, options)>>]
         ELSE [NoEffect EXCEPT !.commands = <<handle_notification_v2(ntitle, options)>>]
    ELSE IF hasOriginal THEN original
    ELSE NoEffect

\* the function the self-installing script assigns to window.Notification;
\* original is the effect of new OriginalNotification(title, options)
IifeNotification(ntitle, options, hasOriginal, original) ==
    IF tauri
    THEN [NoEffect EXCEPT !.commands = <<handle_notification_v2(ntitle, options)>>]
    ELSE IF hasOriginal THEN original
    ELSE NoEffect

\* new fn(ntitle, options). The native constructor builds the page's own
\* notification; the function assigned by intercept() is an arrow function,
\* which has no [[Construct]] unless the bundle was emitted for ES5; the
\* app-side class runs super(title, options) and then handleNotification;
\* the self-installing script's function invokes the bridge it captured, or
\* else constructs the original it captured if there was one; new on
\* undefined throws.
RECURSIVE NotificationNew(_, _, _, _)
NotificationNew(fn, ntitle, options, permission) ==
    IF fn = NativeFn THEN [NoEffect EXCEPT !.originals = 1]
    ELSE IF fn = Absent THEN [NoEffect EXCEPT !.threw = TRUE]
    ELSE IF Head(fn) = "shim"
    THEN IF downlevel THEN ShimCall(ntitle, options)
         ELSE [NoEffect EXCEPT !.threw = TRUE]
    ELSE IF Head(fn) = "iife"
    THEN IifeNotification(ntitle, options, Tail(fn) # Absent,
                          NotificationNew(Tail(fn), ntitle, options, permission))
    ELSE LET inner == NotificationNew(Tail(fn), ntitle, options, permission)
             h == handleNotification(ntitle, options, permission)
         IN  IF inner.threw THEN inner
             ELSE [threw |-> FALSE,
                   commands |-> inner.commands \o h.commands,
                   originals |-> inner.originals,
                   sends |-> inner.sends + h.sends,
                   console |-> inner.console \o h.console]

NoConstruct == [done |-> FALSE]

\* export function init() of notification-interceptor.ts. intercept() assigns
\* window.Notification first; reading requestPermission of an undefined
\* original, or listen of an undefined bridge, then throws into init's catch
initNotifications ==
    /\ notifInits' = notifInits + 1
    /\ IF ~interceptor
       THEN /\ interceptor' = TRUE
            /\ enabled' = TRUE
            /\ originalNotification' = windowNotification
            /\ windowNotification' = <<"shim">> \o windowNotification
            /\ shimPermission' = IF windowNotification # Absent THEN pagePermission
                                ELSE shimPermission
            /\ toggleListeners' = IF tauri /\ windowNotification # Absent
                                  THEN toggleListeners + 1 ELSE toggleListeners
       ELSE /\ UNCHANGED <<interceptor, enabled, originalNotification, windowNotification,
                           shimPermission, toggleListeners>>

\* what init() logs
initNotificationsLog ==
    IF interceptor THEN <<"already-initialized">>
    ELSE IF tauri /\ windowNotification # Absent THEN <<"initialized">>
    ELSE <<"failed-to-initialize">>

NotifInit ==
    /\ notifInits < MaxInits
    /\ initNotifications
    /\ console' = initNotificationsLog
    /\ UNCHANGED <<platformVars, downlevel, patched, toggleEvent, pagePermission, pluginPermission, showListeners,
                   lastConstruct, unloaded, tauri, bootVars, head, privacyVars, netCall, pushVars,
                   unreadVars, themeVars>>

\* the 'toggle-notifications' listener: this.enabled = e.payload
OnToggleNotifications(flag, payload) == payload

\* The self-installing script is evaluated: behind the flag it captures
\* window.Notification and the bridge and assigns a function
IifeEval ==
    /\ notifInits < MaxInits
    /\ notifInits' = notifInits + 1
    /\ IF ~patched
       THEN /\ patched' = TRUE
            /\ windowNotification' = <<"iife">> \o windowNotification
            /\ shimPermission' = "granted"
       ELSE UNCHANGED <<patched, windowNotification, shimPermission>>
    /\ console' = <<>>
    /\ UNCHANGED <<platformVars, downlevel, toggleEvent, interceptor, originalNotification,
                   enabled, toggleListeners, pagePermission, pluginPermission, showListeners,
                   lastConstruct, unloaded, tauri, bootVars, head, privacyVars, netCall,
                   pushVars, unreadVars, themeVars>>

\* a toggle-notifications event reaches the registered listener
ToggleNotifications ==
    /\ toggleListeners > 0
    /\ \E payload \in BOOLEAN :
         /\ toggleEvent' = <<payload>>
         /\ enabled' = OnToggleNotifications(enabled, payload)
         /\ console' = <<IF payload THEN "enabled" ELSE "disabled">>
    /\ UNCHANGED <<platformVars, downlevel, patched, windowNotification, interceptor, originalNotification,
                   toggleListeners, shimPermission, pagePermission, pluginPermission,
                   showListeners, notifInits, lastConstruct, unloaded, tauri, bootVars, head,
                   privacyVars, netCall, pushVars, unreadVars, themeVars>>

\* export function setupNotificationInterceptor()
SetupNotificationInterceptor ==
    /\ notifInits < MaxInits
    /\ notifInits' = notifInits + 1
    /\ windowNotification' = <<"class">> \o windowNotification
    /\ showListeners' = IF tauri THEN showListeners + 1 ELSE showListeners
    /\ console' = <<"set-up">>
    /\ UNCHANGED <<platformVars, downlevel, patched, toggleEvent, interceptor, originalNotification, enabled,
                   toggleListeners, shimPermission, pagePermission, pluginPermission,
                   lastConstruct, unloaded, tauri, bootVars, head, privacyVars, netCall, pushVars,
                   unreadVars, themeVars>>

\* the page constructs a notification: new Notification(title, options). The
\* plugin asks the user when it holds no decision yet.
PageNotification ==
    /\ \E ntitle \in NotifTitles, options \in NotifOptions, answer \in {"granted", "denied"} :
         LET asks == /\ windowNotification # NativeFn
                     /\ Head(windowNotification) = "class"
                     /\ tauri
                     /\ pluginPermission = "default"
             permission == IF asks THEN answer ELSE pluginPermission
             r == NotificationNew(windowNotification, ntitle, options, permission)
         IN  /\ lastConstruct' =
                  [done |-> TRUE, title |-> ntitle, options |-> options,
                   top |-> IF windowNotification = NativeFn THEN "native"
                           ELSE Head(windowNotification),
                   listening |-> toggleListeners > 0,
                   enabled |-> enabled,
                   threw |-> r.threw,
                   commands |-> r.commands,
                   originals |-> r.originals,
                   pageShown |-> IF pagePermission = "granted" THEN r.originals ELSE 0,
                   nativeShown |-> r.sends]
             /\ pluginPermission' = permission
             /\ console' = r.console
    /\ UNCHANGED <<platformVars, downlevel, patched, toggleEvent, windowNotification, interceptor, originalNotification,
                   enabled, toggleListeners, shimPermission, pagePermission,
                   showListeners, notifInits, unloaded, tauri, bootVars, head, privacyVars,
                   netCall, pushVars, unreadVars, themeVars>>

\* the page calls Notification.requestPermission(), which on every variant is
\* the original's: the browser asks the user while it holds no decision
PageRequestPermission ==
    /\ pagePermission = "default"
    /\ \E answer \in {"granted", "denied"} : pagePermission' = answer
    /\ UNCHANGED <<platformVars, downlevel, patched, toggleEvent, windowNotification, interceptor, originalNotification,
                   enabled, toggleListeners, shimPermission, pluginPermission,
                   showListeners, notifInits, lastConstruct, unloaded, tauri, bootVars, head,
                   console, privacyVars, netCall, pushVars, unreadVars, themeVars>>

----------------------------------------------------------------------------
\* The platform selector (selectPlatform of the selector script) and the
\* select_platform command as tasks/r19-spec.md gives it

\* enum Platform
Platforms == {"Instagram", "Messenger", "Facebook", "X"}

None == "None"

\* Platform::as_str
as_str(platform) ==
    CASE platform = "Instagram" -> "instagram"
      [] platform = "Messenger" -> "messenger"
      [] platform = "Facebook" -> "facebook"
      [] platform = "X" -> "x"

\* #[serde(rename = "...")] of each variant
serde_rename(platform) ==
    CASE platform = "Instagram" -> "instagram"
      [] platform = "Messenger" -> "messenger"
      [] platform = "Facebook" -> "facebook"
      [] platform = "X" -> "x"

\* decoding the command's platform argument: the variant renamed to the
\* string, or None when no variant is (the command is then rejected)
Deserialize(name) ==
    IF \E q \in Platforms : serde_rename(q) = name
    THEN CHOOSE q \in Platforms : serde_rename(q) = name
    ELSE None

\* the values of a card's data-platform attribute: the platforms and one the
\* enum does not know
PlatformNames == {"instagram", "messenger", "facebook", "x", "tiktok"}

\* app.path().app_data_dir(), a path as the sequence of its components
AppDataDir == <<"app_data_dir">>

\* the directory of two platforms is one and the same
get_platform_data_dirShared(app_data, platform) ==
    Append(app_data, IF platform = "Facebook" THEN "messenger" ELSE as_str(platform))

\* get_platform_data_dir: app_data.join(platform.as_str())
get_platform_data_dir(app_data, platform) == Append(app_data, as_str(platform))

DataDirs == {get_platform_data_dir(AppDataDir, q) : q \in Platforms}

\* remove_dir_all without the exists() test: an absent directory is an error
ClearOutcomesNoExistsTest(dirs, platform) ==
    LET platform_dir == get_platform_data_dir(AppDataDir, platform)
    IN  IF dirs[platform_dir]
        THEN {[dirs |-> [dirs EXCEPT ![platform_dir] = FALSE], ok |-> TRUE],
              [dirs |-> dirs, ok |-> FALSE]}
        ELSE {[dirs |-> dirs, ok |-> FALSE]}

\* clear_platform_session: the directory is removed if it exists; removing an
\* existing directory may fail
ClearOutcomes(dirs, platform) ==
    LET platform_dir == get_platform_data_dir(AppDataDir, platform)
    IN  IF dirs[platform_dir]
        THEN {[dirs |-> [dirs EXCEPT ![platform_dir] = FALSE], ok |-> TRUE],
              [dirs |-> dirs, ok |-> FALSE]}
        ELSE {[dirs |-> dirs, ok |-> TRUE]}

NoClear == [done |-> FALSE]

\* a select_platform invocation as issued by selectPlatform(name)
NewCall(name) ==
    LET platform == Deserialize(name)
    IN  [name |-> name, platform |-> platform,
         pc |-> IF platform # None THEN "clear" ELSE "done",
         result |-> IF platform # None THEN "pending" ELSE "error",
         reason |-> IF platform # None THEN "" ELSE "unknown variant",
         cleared |-> None, wipeFailed |-> FALSE,
         navigated |-> FALSE, outgoing |-> None, stale |-> FALSE,
         resolved |-> FALSE]

\* a card is clicked: selectPlatform(name) issues invoke('select_platform').
\* A name the enum does not know is rejected when the arguments are decoded.
ClickPlatform ==
    /\ Len(calls) < MaxSwitches
    /\ \E name \in PlatformNames : calls' = Append(calls, NewCall(name))
    /\ UNCHANGED <<current, view, storage, steps, selector, errorMsg, lastClear,
                   notifVars, unloaded, tauri, bootVars, head,
                   console, privacyVars, netCall, pushVars, unreadVars, themeVars>>

\* a card is clicked while no select_platform is in flight
ClickPlatformIdle ==
    /\ Len(calls) < MaxTrips
    /\ \A i \in DOMAIN calls : calls[i].resolved
    /\ \E name \in PlatformNames : calls' = Append(calls, NewCall(name))
    /\ UNCHANGED <<current, view, storage, steps, selector, errorMsg, lastClear,
                   notifVars, unloaded, tauri, bootVars, head,
                   console, privacyVars, netCall, pushVars, unreadVars, themeVars>>

\* clear_previous_session(&app).await?: under the lock on state.current, the
\* session of the platform it holds is cleared; an error returns from
\* select_platform
ClearPreviousSession ==
    /\ \E i \in DOMAIN calls :
         /\ calls[i].pc = "clear"
         /\ IF current = None
            THEN /\ calls' = [calls EXCEPT ![i].pc = "navigate"]
                 /\ UNCHANGED storage
            ELSE \E o \in ClearOutcomes(storage, current) :
                   /\ storage' = o.dirs
                   /\ calls' =
                        IF o.ok
                        THEN [calls EXCEPT ![i].pc = "navigate", ![i].cleared = current]
                        ELSE [calls EXCEPT ![i].pc = "done", ![i].result = "error",
                                           ![i].reason = "remove_dir_all failed",
                                           ![i].wipeFailed = TRUE]
         /\ steps' = Append(steps, i)
    /\ UNCHANGED <<current, view, selector, errorMsg, lastClear,
                   notifVars, unloaded, tauri, bootVars, head,
                   console, privacyVars, netCall, pushVars, unreadVars, themeVars>>

\* window.navigate(url); Ok(()). stale: the directory of the platform being
\* entered exists, left by an earlier visit
Navigate ==
    /\ \E i \in DOMAIN calls :
         /\ calls[i].pc = "navigate"
         /\ view' = calls[i].platform
         /\ calls' = [calls EXCEPT
                        ![i].pc = "done", ![i].result = "ok",
                        ![i].navigated = TRUE, ![i].outgoing = view,
                        ![i].stale =
                            storage[get_platform_data_dir(AppDataDir, calls[i].platform)]]
         /\ steps' = Append(steps, i)
    /\ UNCHANGED <<current, storage, selector, errorMsg, lastClear,
                   notifVars, unloaded, tauri, bootVars, head,
                   console, privacyVars, netCall, pushVars, unreadVars, themeVars>>

\* the selector is removed whatever the command answered
SelectPlatformSettledAlwaysRemoves ==
    /\ \E i \in DOMAIN calls :
         /\ calls[i].pc = "done"
         /\ ~calls[i].resolved
         /\ calls' = [calls EXCEPT ![i].resolved = TRUE]
         /\ selector' = FALSE
         /\ errorMsg' = IF calls[i].result = "ok" THEN errorMsg
                        ELSE <<"Failed to load", calls[i].name, calls[i].reason>>
    /\ UNCHANGED <<current, view, storage, steps, lastClear,
                   notifVars, unloaded, tauri, bootVars, head,
                   console, privacyVars, netCall, pushVars, unreadVars, themeVars>>

\* selectPlatform after its await: the selector is removed on success, the
\* error element is filled on failure
SelectPlatformSettled ==
    /\ \E i \in DOMAIN calls :
         /\ calls[i].pc = "done"
         /\ ~calls[i].resolved
         /\ calls' = [calls EXCEPT ![i].resolved = TRUE]
         /\ IF calls[i].result = "ok"
            THEN /\ selector' = FALSE
                 /\ UNCHANGED errorMsg
            ELSE /\ errorMsg' = <<"Failed to load", calls[i].name, calls[i].reason>>
                 /\ UNCHANGED selector
    /\ UNCHANGED <<current, view, storage, steps, lastClear,
                   notifVars, unloaded, tauri, bootVars, head,
                   console, privacyVars, netCall, pushVars, unreadVars, themeVars>>

\* the platform shown in the view writes session data into its directory
PageStores ==
    /\ view \in Platforms
    /\ ~storage[get_platform_data_dir(AppDataDir, view)]
    /\ storage' = [storage EXCEPT ![get_platform_data_dir(AppDataDir, view)] = TRUE]
    /\ UNCHANGED <<current, view, calls, steps, selector, errorMsg, lastClear,
                   notifVars, unloaded, tauri, bootVars, head,
                   console, privacyVars, netCall, pushVars, unreadVars, themeVars>>

\* clear_platform_session(app, platform) called on its own, as by each round
\* of clear_all_sessions
ClearSession ==
    /\ \E platform \in Platforms : \E o \in ClearOutcomes(storage, platform) :
         /\ storage' = o.dirs
         /\ lastClear' = [done |-> TRUE, platform |-> platform,
                          platform_dir |-> get_platform_data_dir(AppDataDir, platform),
                          before |-> storage, ok |-> o.ok]
    /\ UNCHANGED <<current, view, calls, steps, selector, errorMsg,
                   notifVars, unloaded, tauri, bootVars, head,
                   console, privacyVars, netCall, pushVars, unreadVars, themeVars>>

----------------------------------------------------------------------------
\* The injection bootstrap (src/injection/index.ts)

\* Host names as sequences of the pieces the patterns can tell apart
Hosts ==
    { <<"www", ".", "messenger", ".", "com">>,
      <<"www", ".", "instagram", ".", "com">>,
      <<"www", ".", "facebook", ".", "com">>,
      <<"x", ".", "com">>,
      <<"netfli", "x", ".", "com">>,
      <<"example", ".", "org">> }

\* pattern.test(host) for an unanchored literal pattern
RegexTest(pattern, host) ==
    \E i \in 0..(Len(host) - Len(pattern)) :
        SubSeq(host, i + 1, i + Len(pattern)) = pattern

PLATFORM_PATTERNS ==
    << [name |-> "Messenger", pattern |-> <<"messenger", ".", "com">>],
       [name |-> "Instagram", pattern |-> <<"instagram", ".", "com">>],
       [name |-> "Facebook",  pattern |-> <<"facebook", ".", "com">>],
       [name |-> "X",         pattern |-> <<"x", ".", "com">>] >>

\* detectPlatform returning null
NoPlatform == "null"

\* the first entry whose pattern matches, or null
detectPlatform(host) ==
    LET hits == {i \in DOMAIN PLATFORM_PATTERNS :
                    RegexTest(PLATFORM_PATTERNS[i].pattern, host)}
    IN  IF hits = {} THEN NoPlatform
        ELSE PLATFORM_PATTERNS[CHOOSE i \in hits : \A j \in hits : i <= j].name

Modules == {"notifications", "unread", "theme", "shortcuts", "privacy"}

\* a handler that calls initShortcuts on every platform
InitOrderShortcutsEverywhere(platform) ==
    <<"notifications", "unread", "theme", "shortcuts", "privacy">>

\* the calls of the handler in the order it makes them
InitOrder(platform) ==
    IF platform = "Messenger" \/ platform = "Facebook"
    THEN <<"notifications", "unread", "theme", "shortcuts", "privacy">>
    ELSE <<"notifications", "unread", "theme", "privacy">>

\* console.error('[injection] <module>:', e)
ErrorLog(m) ==
    CASE m = "notifications" -> "injection-notifications-error"
      [] m = "unread"        -> "injection-unread-error"
      [] m = "theme"         -> "injection-theme-error"
      [] m = "shortcuts"     -> "injection-shortcuts-error"
      [] m = "privacy"       -> "injection-privacy-error"

NoRun == [called |-> {}, trace |-> <<>>, returned |-> {}, threw |-> {}, logged |-> <<>>]

NoBootstrap ==
    [runs |-> 0, host |-> <<>>, platform |-> NoPlatform, called |-> {}, trace |-> <<>>,
     returned |-> {}, threw |-> {}, logged |-> <<>>]

\* one try block around all the calls: the first throw ends the handler
RECURSIVE RunInitsOneTry(_, _, _)
RunInitsOneTry(order, throws, b) ==
    IF order = <<>> THEN b
    ELSE LET m == Head(order)
             c == [b EXCEPT !.called = @ \cup {m}, !.trace = Append(@, m)]
         IN  IF m \in throws
             THEN [c EXCEPT !.threw = @ \cup {m}, !.logged = Append(@, ErrorLog(m))]
             ELSE RunInitsOneTry(Tail(order), throws,
                                 [c EXCEPT !.returned = @ \cup {m}])

\* try { init(); } catch(e) { console.error(...); } for each call in turn
RECURSIVE RunInits(_, _, _)
RunInits(order, throws, b) ==
    IF order = <<>> THEN b
    ELSE LET m == Head(order)
             c == [b EXCEPT !.called = @ \cup {m}, !.trace = Append(@, m)]
         IN  RunInits(Tail(order), throws,
                      IF m \in throws
                      THEN [c EXCEPT !.threw = @ \cup {m},
                                     !.logged = Append(@, ErrorLog(m))]
                      ELSE [c EXCEPT !.returned = @ \cup {m}])

\* The DOMContentLoaded handler.  throwing: the modules whose init throws
\* before it changes anything; the privacy guard's init also throws when a
\* primitive it patches is read-only
BootstrapOn(hosts, failing) ==
    /\ ~unloaded
    /\ bootstrap.runs < MaxBoots
    /\ \E host \in hosts, throwing \in failing :
         /\ bootstrap.runs > 0 => host = bootstrap.host
         /\ LET platform == detectPlatform(host)
                order == IF platform = NoPlatform THEN <<>> ELSE InitOrder(platform)
                throws == throwing \cup
                            (IF initPrivacy(PrivacyState).threw THEN {"privacy"} ELSE {})
                r == RunInits(order, throws, NoRun)
                th == IF "theme" \in r.returned THEN initTheme(ThemeState) ELSE ThemeState
                un == IF "unread" \in r.returned THEN initUnread(UnreadState)
                      ELSE UnreadState
                pv == IF "privacy" \in r.called \ throwing
                      THEN initPrivacy([PrivacyState EXCEPT !.head = th.head])
                      ELSE [PrivacyState EXCEPT !.head = th.head]
                log(m, out) == IF m \in r.threw THEN out \o <<ErrorLog(m)>>
                               ELSE IF m \in r.returned THEN out ELSE <<>>
            IN  /\ bootstrap' = [runs |-> bootstrap.runs + 1, host |-> host,
                                 platform |-> platform, called |-> r.called,
                                 trace |-> r.trace,
                                 returned |-> r.returned, threw |-> r.threw,
                                 logged |-> r.logged]
                /\ IF "notifications" \in r.returned
                   THEN initNotifications
                   ELSE UNCHANGED <<notifInits, interceptor, enabled, originalNotification,
                                    windowNotification, shimPermission, toggleListeners>>
                /\ IF "unread" \in r.returned
                   THEN initUnreadTimers
                   ELSE UNCHANGED <<unreadInits, titleObservers, pollTimers>>
                /\ lastUnreadCount' = un.last
                /\ sent' = un.sent
                /\ IF "theme" \in r.returned
                   THEN initThemeListener
                   ELSE UNCHANGED <<themeInits, themeListeners, themeEvent>>
                /\ currentTheme' = th.theme
                /\ styleElement' = th.el
                /\ keydownListeners' = IF "shortcuts" \in r.returned
                                       THEN keydownListeners + 1 ELSE keydownListeners
                /\ privacyInits' = IF "privacy" \in r.called \ throwing
                                   THEN privacyInits + 1 ELSE privacyInits
                /\ privacyListeners' = IF tauri /\ "privacy" \in r.returned
                                       THEN privacyListeners + 1 ELSE privacyListeners
                /\ privacyConfig' = pv.cfg
                /\ styleElements' = pv.styles
                /\ _xhrPatched' = pv.xhrPatched
                /\ _fetchPatched' = pv.fetchPatched
                /\ xhrOpen' = pv.xhrOpen
                /\ windowFetch' = pv.fetch
                /\ head' = pv.head
                /\ console' = IF platform = NoPlatform THEN <<>>
                              ELSE <<"platform">>
                                   \o log("notifications", initNotificationsLog)
                                   \o log("unread", un.console)
                                   \o log("theme", th.console)
                                   \o log("shortcuts", <<>>)
                                   \o (IF "privacy" \in throwing
                                       THEN <<ErrorLog("privacy")>>
                                       ELSE log("privacy", pv.console))
    /\ UNCHANGED <<platformVars, downlevel, patched, toggleEvent, pagePermission, pluginPermission,
                   showListeners, lastConstruct, unloaded, tauri, frozenPrimitives,
                   netCall, pushVars, title, titleElement, pendingMutations, parsed>>

\* on any host, with any of the inits throwing
Bootstrap == BootstrapOn(Hosts, SUBSET Modules)

\* on messenger.com, with no init throwing at entry
BootstrapMessenger == BootstrapOn({<<"www", ".", "messenger", ".", "com">>}, {{}})

----------------------------------------------------------------------------

InitPrivacy ==
    /\ privacyConfig = defaultConfig
    /\ styleElements = <<>>
    /\ _xhrPatched = FALSE
    /\ _fetchPatched = FALSE
    /\ xhrOpen = NativeFn
    /\ windowFetch = NativeFn
    /\ privacyInits = 0
    /\ privacyListeners = 0
    /\ netCall = NoCall
    /\ uiToggles = defaultConfig
    /\ commands = {}
    /\ pushed = <<>>
    /\ inflight = {}
    /\ maxDelivered = 0

InitUnread ==
    /\ lastUnreadCount = -1
    /\ titleObservers = 0
    /\ pollTimers = 0
    /\ pendingMutations = 0
    /\ unreadInits = 0
    /\ sent = <<>>
    /\ parsed = [done |-> FALSE]

InitTheme ==
    /\ currentTheme = "light"
    /\ styleElement = NoNode
    /\ themeInits = 0
    /\ themeListeners = 0
    /\ themeEvent = "(none)"

InitPage ==
    /\ tauri \in BOOLEAN
    /\ bootstrap = NoBootstrap
    /\ keydownListeners = 0
    /\ head = <<>>
    /\ console = <<>>
    /\ unloaded = FALSE

\* The selector is shown, no platform directory exists, nothing is in flight
InitPlatform ==
    /\ view = "selector"
    /\ calls = <<>>
    /\ steps = <<>>
    /\ selector = TRUE
    /\ errorMsg = <<>>
    /\ lastClear = NoClear

\* no interceptor exists yet
InitNotif ==
    /\ patched = FALSE
    /\ interceptor = FALSE
    /\ originalNotification = NativeFn
    /\ enabled = TRUE
    /\ toggleListeners = 0
    /\ shimPermission = "default"
    /\ pagePermission = "default"
    /\ pluginPermission = "default"
    /\ showListeners = 0
    /\ notifInits = 0
    /\ lastConstruct = NoConstruct
    /\ toggleEvent = <<>>

\* Every module as loaded, before any init() has run
InitModules ==
    /\ InitPage
    /\ InitPrivacy
    /\ InitUnread
    /\ InitTheme
    /\ InitNotif
    /\ InitPlatform

\* The page as loaded, showing a title without a count
Init ==
    /\ InitModules
    /\ windowNotification = NativeFn
    /\ frozenPrimitives = {}
    /\ storage = [d \in DataDirs |-> FALSE]
    /\ current = None
    /\ downlevel = FALSE
    /\ titleElement = TRUE
    /\ title = T_Plain

\* The page as loaded, showing any of its titles. Without a <title> element
\* document.title is the empty string.
InitTitles ==
    /\ InitModules
    /\ windowNotification = NativeFn
    /\ frozenPrimitives = {}
    /\ storage = [d \in DataDirs |-> FALSE]
    /\ current = None
    /\ downlevel = FALSE
    /\ titleElement \in BOOLEAN
    /\ title \in IF titleElement THEN UnreadTitles ELSE {<<>>}

NextPrivacy ==
    \/ PrivacyInit
    \/ UpdatePrivacy
    \/ PageXhrOpen
    \/ PageFetch

SpecPrivacy == Init /\ [][NextPrivacy]_vars

\* The guard on a page that may have made either primitive read-only before
\* the scripts are injected
InitFrozen ==
    /\ InitModules
    /\ windowNotification = NativeFn
    /\ frozenPrimitives \in SUBSET {"xhr", "fetch"}
    /\ storage = [d \in DataDirs |-> FALSE]
    /\ current = None
    /\ downlevel = FALSE
    /\ titleElement = TRUE
    /\ title = T_Plain

SpecPrivacyFrozen == InitFrozen /\ [][NextPrivacy]_vars

SpecBootstrap == InitFrozen /\ [][Bootstrap]_vars

\* The bootstrap and the three events the modules listen for
NextEvents ==
    \/ BootstrapMessenger
    \/ UpdatePrivacy
    \/ SetTheme
    \/ ToggleNotifications

SpecEvents == Init /\ [][NextEvents]_vars

NextPrivacyLegacy ==
    \/ PrivacyInitLegacy
    \/ UpdatePrivacyLegacy
    \/ PageXhrOpen
    \/ PageFetch

SpecPrivacyLegacy == Init /\ [][NextPrivacyLegacy]_vars

NextPush ==
    \/ PrivacyInit
    \/ SettingsToggleChange
    \/ NativeSetPrivacy
    \/ DeliverPush

SpecPush == Init /\ [][NextPush]_vars

NextUnread ==
    \/ UnreadInit
    \/ SetTitle
    \/ ObserverCallback
    \/ PollTick
    \/ PageUnload

SpecUnread == InitTitles /\ [][NextUnread]_vars

\* The document has no <title> element when init() runs, so no observer is
\* attached (querySelector returns null) and only the timer sees the titles
\* the page sets later
InitNoTitle ==
    /\ InitModules
    /\ windowNotification = NativeFn
    /\ frozenPrimitives = {}
    /\ storage = [d \in DataDirs |-> FALSE]
    /\ current = None
    /\ downlevel = FALSE
    /\ titleElement = FALSE
    /\ title = <<>>

NextFallback ==
    \/ UnreadInit
    \/ SetTitle
    \/ PollTick

\* setInterval fires its callback every 2 seconds for as long as the page
\* lives: a timer callback that stays enabled is eventually run
SpecFallback == InitNoTitle /\ [][NextFallback]_vars /\ WF_vars(PollTick)

\* "(12) Messenger", and a title in which the separator pattern comes first
T_Paren12 == <<"(", "1", "2", ")", " ", Letter>>

T_Both == <<MidDot, "1", "(", "2", ")">>

\* parseUnreadCount over every title of up to MaxTitleLen characters and the
\* titles above
ParseTitles == SeqsUpTo(Chars, MaxTitleLen) \cup UnreadTitles \cup {T_Paren12, T_Both}

InitParse ==
    /\ InitModules
    /\ windowNotification = NativeFn
    /\ frozenPrimitives = {}
    /\ storage = [d \in DataDirs |-> FALSE]
    /\ current = None
    /\ downlevel = FALSE
    /\ tauri = TRUE
    /\ titleElement = TRUE
    /\ title \in ParseTitles

NextParse == ParseTitle

SpecParse == InitParse /\ [][NextParse]_vars

\* The theme injector on the page it shares with the privacy guard, whose
\* style nodes are children of the same document.head
NextTheme ==
    \/ ThemeInit
    \/ SetTheme
    \/ PrivacyInit

SpecTheme == Init /\ [][NextTheme]_vars

\* The page under either build of the bundle
InitBuilds ==
    /\ InitModules
    /\ windowNotification = NativeFn
    /\ frozenPrimitives = {}
    /\ storage = [d \in DataDirs |-> FALSE]
    /\ current = None
    /\ downlevel \in BOOLEAN
    /\ titleElement = TRUE
    /\ title = T_Plain

NextNotif ==
    \/ NotifInit
    \/ ToggleNotifications
    \/ PageNotification
    \/ PageRequestPermission

SpecNotif == InitBuilds /\ [][NextNotif]_vars

\* A webview with or without the Notification API, into which either script
\* of notification-interceptor.ts is injected
InitWebviews ==
    /\ InitModules
    /\ windowNotification \in {NativeFn, Absent}
    /\ frozenPrimitives = {}
    /\ storage = [d \in DataDirs |-> FALSE]
    /\ current = None
    /\ downlevel = FALSE
    /\ titleElement = TRUE
    /\ title = T_Plain

NextInstall ==
    \/ NotifInit
    \/ IifeEval
    \/ ToggleNotifications
    \/ PageNotification

SpecInstall == InitWebviews /\ [][NextInstall]_vars

NextIife ==
    \/ IifeEval
    \/ PageNotification

SpecIife == InitWebviews /\ [][NextIife]_vars

NextAppNotif ==
    \/ SetupNotificationInterceptor
    \/ PageNotification
    \/ PageRequestPermission

SpecAppNotif == Init /\ [][NextAppNotif]_vars

\* The application as started: the sources do not show how PlatformState is
\* constructed, so current starts as any value of its type
InitSwitch ==
    /\ InitModules
    /\ windowNotification = NativeFn
    /\ frozenPrimitives = {}
    /\ storage = [d \in DataDirs |-> FALSE]
    /\ current \in Platforms \cup {None}
    /\ downlevel = FALSE
    /\ tauri = TRUE
    /\ titleElement = TRUE
    /\ title = T_Plain

NextSwitch ==
    \/ ClickPlatform
    \/ ClearPreviousSession
    \/ Navigate
    \/ SelectPlatformSettled
    \/ PageStores

SpecSwitch == InitSwitch /\ [][NextSwitch]_vars

\* Switches issued one at a time, each after the one before has settled
NextRoundTrip ==
    \/ ClickPlatformIdle
    \/ ClearPreviousSession
    \/ Navigate
    \/ SelectPlatformSettled
    \/ PageStores

SpecRoundTrip == InitSwitch /\ [][NextRoundTrip]_vars

\* clear_platform_session over every combination of existing directories
InitClear ==
    /\ InitModules
    /\ windowNotification = NativeFn
    /\ frozenPrimitives = {}
    /\ storage \in [DataDirs -> BOOLEAN]
    /\ current = None
    /\ downlevel = FALSE
    /\ tauri = TRUE
    /\ titleElement = TRUE
    /\ title = T_Plain

NextClear == ClearSession

SpecClear == InitClear /\ [][NextClear]_vars

----------------------------------------------------------------------------
\* Claims on the privacy guard

GuardInstalled == privacyInits > 0

MarkerCall == netCall.api # "none" /\ HasMarker(netCall.href)

PlainCall == netCall.api # "none" /\ ~HasMarker(netCall.href)

\* C1: each primitive carries at most one patch layer, that layer forwards to
\* the original captured at module load, and the patched markers never go
\* back from true to false.
C1_SinglePatchLayer ==
    /\ [](/\ Len(xhrOpen) <= 1
          /\ Len(windowFetch) <= 1
          /\ (_xhrPatched <=> xhrOpen # NativeFn)
          /\ (_fetchPatched <=> windowFetch # NativeFn)
          /\ (_xhrPatched => Tail(xhrOpen) = _originalXhrOpen)
          /\ (_fetchPatched => Tail(windowFetch) = _originalFetch))
    /\ [][(_xhrPatched => _xhrPatched') /\ (_fetchPatched => _fetchPatched')]_vars

\* An update that re-ran the blockTyping branch on already patched primitives
C1_Witness ==
    /\ privacyInits = MaxInits
    /\ privacyListeners > 0
    /\ privacyConfig # defaultConfig
    /\ privacyConfig["blockTyping"]
    /\ _xhrPatched /\ _fetchPatched
    /\ \E i \in DOMAIN console : console[i] = "typing-blocking-enabled"

\* C2: with blockTyping on and the guard installed, no open or fetch whose URL
\* carries a typing/composing marker reaches the original primitive: open
\* returns undefined, fetch rejects.
C2_MarkerNeverReachesOriginal ==
    (GuardInstalled /\ privacyConfig["blockTyping"] /\ MarkerCall) =>
        /\ netCall.orig = <<>>
        /\ netCall.ret = IF netCall.api = "xhr" THEN "undefined" ELSE "rejected"

\* C3: with the guard installed, a call whose URL carries no marker reaches the
\* original exactly once, with the page's receiver and arguments, and the page
\* gets the original's result.
C3_PlainCallForwarded ==
    (GuardInstalled /\ PlainCall) =>
        /\ netCall.orig = <<[recv |-> netCall.recv, args |-> netCall.args]>>
        /\ netCall.ret = IF netCall.api = "xhr" THEN "opened" ELSE "response"

C3_Witness ==
    /\ GuardInstalled /\ _fetchPatched
    /\ PlainCall
    /\ netCall.api = "fetch"
    /\ netCall.args.init = "init"
    /\ netCall.recv = "undefined"
    /\ Len(netCall.orig) = 1

PrivacyCss == {SeenCss, LastActiveCss, PreviewCss}

ToggleOf(css) ==
    IF css = SeenCss THEN "blockReadReceipts"
    ELSE IF css = LastActiveCss THEN "hideLastActive"
    ELSE "blockLinkPreviews"

\* positions in document.head of the privacy guard's style nodes
PrivacyNodes == {i \in DOMAIN head : head[i].text \in PrivacyCss}

\* C4: after init and any updates, the attached privacy style nodes are exactly
\* one per true toggle of the current config among the three style toggles,
\* and styleElements lists exactly those nodes.
C4_StylesMatchLatestConfig ==
    GuardInstalled =>
        /\ \A css \in PrivacyCss :
             Cardinality({i \in PrivacyNodes : head[i].text = css})
               = IF privacyConfig[ToggleOf(css)] THEN 1 ELSE 0
        /\ Len(styleElements) = Cardinality(PrivacyNodes)
        /\ Range(styleElements) = {head[i].nid : i \in PrivacyNodes}

\* Two listeners handled an update that left two of the three rules on
C4_Witness ==
    /\ privacyListeners = MaxInits
    /\ ~privacyConfig["blockReadReceipts"]
    /\ privacyConfig["hideLastActive"]
    /\ privacyConfig["blockLinkPreviews"]
    /\ Len(styleElements) = 2
    /\ Cardinality(PrivacyNodes) = 2

\* C5: a marker request is blocked if and only if blockTyping is true in the
\* latest config (stated for string URLs, the form both patches inspect).
C5_BlockedIffLatestConfig ==
    (GuardInstalled /\ MarkerCall /\ netCall.kind = "string") =>
        (netCall.orig = <<>> <=> privacyConfig["blockTyping"])

\* C6: the page's config is that of the highest version delivered so far,
\* whatever the order of arrival.
C6_LastWriteWinsByVersion ==
    maxDelivered > 0 => privacyConfig = pushed[maxDelivered]

----------------------------------------------------------------------------
\* Claims on the unread counter

\* C7: no two consecutive update_unread_count commands carry the same count,
\* and a step that observes a count equal to lastUnreadCount issues no command.
C7_NoRepeatedCount ==
    /\ [](\A i \in 1..(Len(sent) - 1) : sent[i] # sent[i + 1])
    /\ [][(parseUnreadCount(title') = Some(lastUnreadCount) => sent' = sent)
          /\ (lastUnreadCount' = lastUnreadCount => sent' = sent)]_vars

\* Two observers and two timers have run on a title whose count was already sent
C7_Witness ==
    /\ unreadInits = MaxInits
    /\ titleObservers = MaxInits
    /\ pendingMutations = 0
    /\ Len(sent) >= 2
    /\ parseUnreadCount(title) = Some(lastUnreadCount)
    /\ sent[Len(sent)] = lastUnreadCount

\* The digit groups of a title, stated from the claim's words
AllDigits(t, a, b) == a <= b /\ \A k \in a..b : t[k] \in Digits

RECURSIVE Decimal(_, _, _)
Decimal(t, a, b) ==
    IF a > b THEN 0 ELSE DigitValue(t[a]) * 10 ^ (b - a) + Decimal(t, a + 1, b)

ParenGroups(t) ==
    {g \in (1..Len(t)) \X (1..Len(t)) :
        t[g[1]] = "(" /\ t[g[2]] = ")" /\ AllDigits(t, g[1] + 1, g[2] - 1)}

DotGroups(t) ==
    {g \in (1..Len(t)) \X (1..Len(t)) \X (1..Len(t)) :
        /\ t[g[1]] = MidDot
        /\ g[1] < g[2]
        /\ \A m \in (g[1] + 1)..(g[2] - 1) : t[m] = " "
        /\ AllDigits(t, g[2], g[3])
        /\ (g[3] = Len(t) \/ t[g[3] + 1] \notin Digits)}

First(groups) == CHOOSE g \in groups : \A h \in groups : g[1] <= h[1]

ExpectedCount(t) ==
    IF ParenGroups(t) # {}
    THEN LET g == First(ParenGroups(t)) IN Some(Decimal(t, g[1] + 1, g[2] - 1))
    ELSE IF DotGroups(t) # {}
    THEN LET g == First(DotGroups(t)) IN Some(Decimal(t, g[2], g[3]))
    ELSE Null

\* C8: parseUnreadCount returns the number of the first parenthesized digit
\* group if there is one, else the number after the first separator that is
\* followed by optional whitespace and digits, else none; "(12) Messenger"
\* gives 12, "Messenger <separator> 7" gives 7, "Messenger" gives none.
C8_ParseUnreadCount ==
    parsed.done =>
        /\ parsed.result = ExpectedCount(title)
        /\ (title = T_Paren12 => parsed.result = Some(12))
        /\ (title = T_Dot7 => parsed.result = Some(7))
        /\ (title = T_Plain => parsed.result = Null)

\* Both patterns occur, the separator one first: the parenthesized one wins
C8_Witness ==
    /\ parsed.done
    /\ title = T_Both
    /\ parsed.result = Some(2)

----------------------------------------------------------------------------
\* Claims on the theme injector

DefinedThemes == {"light", "dark", "darker", "oled"}

\* positions in document.head of nodes with id 'messenger-theme'
ThemeNodes == {i \in DOMAIN head : head[i].id = "messenger-theme"}

ThemeText == {head[i].text : i \in ThemeNodes}

\* C9: a set-theme event whose payload is no defined theme name (nor "remove"
\* nor "default") leaves currentTheme, the style node and its content as they
\* were and logs a rejection.
C9_UnknownThemeRejected ==
    [][(themeEvent' \in ThemePayloads \ (DefinedThemes \cup {"remove", "default"})) =>
          /\ currentTheme' = currentTheme
          /\ styleElement' = styleElement
          /\ head' = head
          /\ \E i \in DOMAIN console' : console'[i] = "unknown-theme"]_themeVars

\* C10: at most one node with id 'messenger-theme' is attached, it is the one
\* styleElement holds, and an accepted event on an existing node keeps that
\* node and the number of children of head, and sets its content.
C10_OneThemeNode ==
    /\ [](/\ Cardinality(ThemeNodes) <= 1
          /\ (styleElement # NoNode => \E i \in ThemeNodes : head[i].nid = styleElement)
          /\ (styleElement = NoNode => ThemeNodes = {}))
    /\ [][(themeEvent' \in ThemePayloads /\ "applied" \in Range(console')) =>
            /\ (styleElement # NoNode =>
                  styleElement' = styleElement /\ Len(head') = Len(head))
            /\ ThemeText' = {themes(themeEvent').text}]_themeVars

\* Two listeners applied one event: the second found the node and reused it,
\* next to the privacy guard's style nodes
C10_Witness ==
    /\ themeListeners = MaxInits
    /\ console = <<"applied", "applied">>
    /\ styleElement # NoNode
    /\ Cardinality(ThemeNodes) = 1
    /\ Len(head) > 1

\* C11: a set-theme event naming a theme of the table (light, dark, darker,
\* oled) is accepted: afterwards currentTheme is that name and the theme style
\* node's content is the table's CSS for it.
C11_DefinedThemeAccepted ==
    [][(themeEvent' \in DefinedThemes) =>
          /\ currentTheme' = themeEvent'
          /\ ThemeText' = {themes(themeEvent').text}]_themeVars

----------------------------------------------------------------------------
\* Claims on the notification interceptors

\* the value a command carries for an option: the option's string, or the
\* empty string when the option is absent
GivenOrEmpty(v) == IF v.type = "string" THEN v.text ELSE ""

ShimInstalled ==
    /\ windowNotification # NativeFn
    /\ Head(windowNotification) = "shim"
    /\ toggleListeners > 0

\* C12: with the injected interceptor installed and enabled, a notification
\* construction by the page issues exactly one show_notification command that
\* carries the title and the body, icon and tag of the options (the empty
\* string for an absent one), and constructs no original Notification.
C12_OneShowNotificationPerConstruction ==
    (/\ lastConstruct.done
     /\ lastConstruct.top = "shim"
     /\ lastConstruct.listening
     /\ lastConstruct.enabled) =>
        /\ lastConstruct.commands =
             << [cmd |-> "show_notification",
                 title |-> lastConstruct.title,
                 body |-> GivenOrEmpty(lastConstruct.options.body),
                 icon |-> GivenOrEmpty(lastConstruct.options.icon),
                 tag |-> GivenOrEmpty(lastConstruct.options.tag)] >>
        /\ lastConstruct.originals = 0

\* C13: once the shim is installed, Notification.permission read on the shim
\* is the permission the original reports, also after the page has called
\* requestPermission and the user has answered.
C13_ShimPermissionTracksOriginal ==
    ShimInstalled => shimPermission = pagePermission

\* C14: with the app-side interceptor set up (once or more), a notification
\* construction by the page presents at most one notification to the user: the
\* page's own is not shown, only the native one.
C14_AtMostOneVisibleNotification ==
    (lastConstruct.done /\ lastConstruct.top = "class") =>
        /\ lastConstruct.pageShown = 0
        /\ lastConstruct.pageShown + lastConstruct.nativeShown <= 1

----------------------------------------------------------------------------
\* Claims on the earlier privacy guard and on request bodies

\* C15: in the guard that captures the originals inside applyPrivacyRules,
\* after init() and any number of update-privacy events that leave blockTyping
\* true, each of the two primitives carries exactly one patch layer.
C15_LegacySinglePatchLayer ==
    (privacyInits = 1) => (Len(xhrOpen) = 1 /\ Len(windowFetch) = 1)

\* C16: while blockTyping is true and the guard is installed, a request whose
\* body carries the typing marker never reaches the browser's own primitive,
\* whatever its URL.
C16_TypingBodyNeverReachesOriginal ==
    (/\ GuardInstalled
     /\ privacyConfig["blockTyping"]
     /\ netCall.api = "fetch"
     /\ netCall.args.init = InitTypingBody) => netCall.orig = <<>>

----------------------------------------------------------------------------
\* Claims on the unread counter's fallback timer

\* C17: the fallback timer that init() starts is cancelled when the page is
\* torn down, so that no timer of the page is live after its unload; and a
\* page on which init() ran once has at most one fallback timer.
C17_TimerCancelledOnTeardown ==
    /\ unloaded => pollTimers = 0
    /\ (unreadInits <= 1) => pollTimers <= 1

----------------------------------------------------------------------------
\* Claims on platform switching

AllSwitchesDone ==
    /\ calls # <<>>
    /\ \A i \in DOMAIN calls : calls[i].pc = "done"

\* C18: in every switch the session of the outgoing platform (the one the view
\* showed) has been cleared by that switch before the view is navigated, and
\* once the view shows a platform that platform is the one recorded as active.
C18_PurgeBeforeNavigate ==
    /\ \A i \in DOMAIN calls :
         (calls[i].navigated /\ calls[i].outgoing \in Platforms) =>
             calls[i].cleared = calls[i].outgoing
    /\ (view \in Platforms) => current = view

\* C19: a select_platform whose wipe of the outgoing session failed still
\* navigates the view to its platform and returns success.
C19_WipeFailureDoesNotBlock ==
    \A i \in DOMAIN calls :
        (calls[i].wipeFailed /\ calls[i].pc = "done") =>
            (calls[i].navigated /\ calls[i].result = "ok")

\* C20: the steps of two select_platform invocations never interleave (the
\* steps of one invocation are consecutive), and when every invocation has
\* finished and the last one issued succeeded, the view shows its platform.
C20_SwitchesNeverInterleave ==
    /\ \A i, k \in DOMAIN steps :
         (i < k /\ steps[i] = steps[k]) => \A j \in i..k : steps[j] = steps[i]
    /\ (AllSwitchesDone /\ calls[Len(calls)].result = "ok") =>
           view = calls[Len(calls)].platform

----------------------------------------------------------------------------
\* Claims on sessions, data directories and the selector

\* C21: after a switch to a platform, a switch to another platform and a
\* switch back, each issued once the one before has settled, the first
\* platform's directory holds nothing of the first visit when it is entered
\* again.
C21_RoundTripFindsNothing ==
    \A i, j, k \in DOMAIN calls :
        (/\ i < j /\ j < k
         /\ calls[i].navigated /\ calls[j].navigated /\ calls[k].navigated
         /\ calls[i].platform = calls[k].platform
         /\ calls[j].platform # calls[i].platform) => ~calls[k].stale

C23_DistinctDataDirs ==
    /\ Cardinality(DOMAIN storage) = Cardinality(Platforms)
    /\ \A q, r \in Platforms :
         q # r => get_platform_data_dir(AppDataDir, q) # get_platform_data_dir(AppDataDir, r)
    /\ \A q \in Platforms :
         LET dir == get_platform_data_dir(AppDataDir, q)
         IN  /\ Len(dir) = Len(AppDataDir) + 1
             /\ SubSeq(dir, 1, Len(AppDataDir)) = AppDataDir
             /\ dir[Len(dir)] \in {"instagram", "messenger", "facebook", "x"}
    /\ lastClear.done =>
         lastClear.platform_dir = get_platform_data_dir(AppDataDir, lastClear.platform)

\* One platform's directory was removed while the three others stay in place
C23_Witness ==
    /\ lastClear.done
    /\ lastClear.ok
    /\ lastClear.before[lastClear.platform_dir]
    /\ \A d \in DataDirs \ {lastClear.platform_dir} : storage[d]

----------------------------------------------------------------------------
\* Claims on failures during installation

\* C26: when the page has made a network primitive read-only before the guard
\* is installed, the guard still injects one style node per true toggle among
\* read receipts, last active and link previews.
C26_FrozenPrimitiveDegradesToStyles ==
    (GuardInstalled /\ frozenPrimitives # {}) =>
        \A css \in PrivacyCss :
            Cardinality({i \in PrivacyNodes : head[i].text = css})
              = IF privacyConfig[ToggleOf(css)] THEN 1 ELSE 0

\* C25: in a run of the bootstrap on a supported host, every init of the
\* handler's order is called; each one that throws has its error logged, and
\* each one that does not throw is initialized, whichever others threw.
C25_ThrowingInitDoesNotStopOthers ==
    (bootstrap.runs > 0 /\ bootstrap.platform # NoPlatform) =>
        LET order == InitOrder(bootstrap.platform)
            mods == {order[i] : i \in DOMAIN order}
        IN  /\ bootstrap.called = mods
            /\ \A m \in mods :
                 IF m \in bootstrap.threw
                 THEN \E i \in DOMAIN bootstrap.logged : bootstrap.logged[i] = ErrorLog(m)
                 ELSE m \in bootstrap.returned
            /\ ("theme" \in bootstrap.returned => themeInits > 0)
            /\ ("unread" \in bootstrap.returned => unreadInits > 0)
            /\ ("notifications" \in bootstrap.returned => interceptor)
            /\ ("shortcuts" \in bootstrap.returned => keydownListeners > 0)
            /\ ("privacy" \in bootstrap.returned => GuardInstalled)

\* the first init throws and the last one is initialized all the same
C25_Witness ==
    /\ bootstrap.runs = 1
    /\ bootstrap.platform = "Messenger"
    /\ bootstrap.threw = {"notifications", "theme"}
    /\ bootstrap.returned = {"unread", "shortcuts", "privacy"}
    /\ ~interceptor
    /\ unreadInits = 1
    /\ keydownListeners = 1
    /\ privacyInits = 1

----------------------------------------------------------------------------
\* Claims on the toggle of the injected notification interceptor

\* the payload of the most recent toggle event, true before any
LastTogglePayload == IF toggleEvent = <<>> THEN TRUE ELSE toggleEvent[1]

\* C27: the enabled flag of the interceptor equals the payload of the most
\* recent toggle-notifications event (true before any), and a notification
\* construction by the page on the listening shim issues a show_notification
\* command exactly when that flag is true: none after toggle(false), one again
\* after toggle(true).
C27_ForwardingFollowsToggle ==
    /\ interceptor => enabled = LastTogglePayload
    /\ (/\ lastConstruct.done
        /\ lastConstruct.top = "shim"
        /\ lastConstruct.listening) =>
           IF lastConstruct.enabled
           THEN /\ Len(lastConstruct.commands) = 1
                /\ lastConstruct.commands[1].cmd = "show_notification"
           ELSE lastConstruct.commands = <<>>

----------------------------------------------------------------------------
\* Claims on repeated delivery

\* what a page can tell of the document head: the nodes in order, without the
\* identity of the node objects
HeadView(hd) == [i \in DOMAIN hd |-> [id |-> hd[i].id, text |-> hd[i].text]]

PrivacyView(s) ==
    [cfg |-> s.cfg, nodes |-> HeadView(s.head), listed |-> Len(s.styles),
     xhrOpen |-> s.xhrOpen, fetch |-> s.fetch]

ThemeView(s) == [theme |-> s.theme, attached |-> s.el # NoNode, nodes |-> HeadView(s.head)]

\* C28: in every state the modules reach, an update-privacy, set-theme or
\* toggle-notifications event delivered twice (two events in a row, or one
\* event to a listener registered twice) leaves the same config, style nodes,
\* patched primitives, theme and enabled flag as the event delivered once.
C28_RedeliveryChangesNothing ==
    /\ \A payload \in Payloads :
         PrivacyView(DeliverUpdate(PrivacyState, payload, 2))
           = PrivacyView(DeliverUpdate(PrivacyState, payload, 1))
    /\ \A payload \in ThemePayloads :
         ThemeView(DeliverTheme(ThemeState, payload, 2))
           = ThemeView(DeliverTheme(ThemeState, payload, 1))
    /\ \A payload \in BOOLEAN :
         OnToggleNotifications(OnToggleNotifications(enabled, payload), payload)
           = OnToggleNotifications(enabled, payload)

\* the bootstrap has registered the three listeners and each has received an
\* event: the config and the theme are not the defaults and the flag is off
C28_Witness ==
    /\ privacyListeners > 0
    /\ themeListeners > 0
    /\ privacyConfig # defaultConfig
    /\ Cardinality(PrivacyNodes) = 1
    /\ currentTheme = "dark"
    /\ Cardinality(ThemeNodes) = 1
    /\ toggleEvent = <<FALSE>>
    /\ ~enabled

----------------------------------------------------------------------------
\* Claims on partial payloads

\* C29: an update-privacy event sets the toggles its payload names to the
\* payload's values and leaves every other toggle at the value it had; the
\* config holds a boolean for each of the four toggles before and after.
C29_PartialPayloadKeepsOthers ==
    /\ DOMAIN privacyConfig = Toggles
    /\ \A payload \in Payloads :
         LET after == DeliverUpdate(PrivacyState, payload, 1).cfg
         IN  /\ DOMAIN after = Toggles
             /\ \A k \in Toggles :
                  /\ after[k] \in BOOLEAN
                  /\ after[k] = IF k \in DOMAIN payload THEN payload[k]
                                ELSE privacyConfig[k]

\* two events with one toggle each have been delivered: the config differs
\* from the defaults in exactly those two toggles
C29_Witness ==
    /\ privacyListeners > 0
    /\ privacyConfig = [defaultConfig EXCEPT !["blockTyping"] = ~defaultConfig["blockTyping"],
                                             !["hideLastActive"] = ~defaultConfig["hideLastActive"]]

----------------------------------------------------------------------------
\* Claims on the forms of the fetch input

\* C30: a call of the patched fetch whose input is a string, a Request or a
\* URL object with a typing/composing marker in its URL is rejected without a
\* call of the original fetch.
C30_EveryInputFormBlocked ==
    (/\ netCall.api = "fetch"
     /\ windowFetch # NativeFn
     /\ netCall.kind \in {"string", "Request", "URL"}
     /\ HasMarker(netCall.href)) =>
        /\ netCall.orig = <<>>
        /\ netCall.ret = "rejected"

----------------------------------------------------------------------------
\* Claims on the defaults

\* C31: once init() has run and while no update-privacy event has been
\* delivered, the config has all four toggles true, exactly three hiding
\* style nodes are attached, and every open or fetch whose URL carries a
\* typing/composing marker is blocked, whatever the native side holds.
C31_DefaultsUntilFirstPush ==
    (GuardInstalled /\ maxDelivered = 0) =>
        /\ privacyConfig = [t \in Toggles |-> TRUE]
        /\ Cardinality(PrivacyNodes) = 3
        /\ \A args \in XhrArgs :
             HasMarker(args.url.href) => XhrOpenCall(xhrOpen, "xhr1", args).orig = <<>>
        /\ \A args \in FetchArgs :
             HasMarker(args.input.href) => FetchCall(windowFetch, "window", args).orig = <<>>

----------------------------------------------------------------------------
\* Claims on titles without a count

\* C32: a step on which the title carries no count issues no command and
\* leaves lastUnreadCount alone; a command is issued only for the count parsed
\* from the title, one at a time, and only when that count differs from
\* lastUnreadCount, so a count that comes back after a title without a count
\* is not sent again and a zero is sent only for a title that shows a 0.
C32_NoCountNoCommand ==
    [][/\ (parseUnreadCount(title') = Null =>
             sent' = sent /\ lastUnreadCount' = lastUnreadCount)
       /\ (sent' # sent =>
             \E n \in 0..99 :
                /\ parseUnreadCount(title') = Some(n)
                /\ n # lastUnreadCount
                /\ sent' = Append(sent, n)
                /\ lastUnreadCount' = n)]_vars

\* "(1) M" was forwarded, the title lost its count and shows "(1) M" again:
\* one command in all, and the timer has nothing left to do
C32_Witness ==
    /\ tauri
    /\ pollTimers > 0
    /\ pendingMutations = 0
    /\ title = T_Paren1
    /\ lastUnreadCount = 1
    /\ sent = <<1>>
    /\ console = <<>>

----------------------------------------------------------------------------
\* Claims on the guard value

\* C33: lastUnreadCount is the count of the last command that was issued: it
\* leaves its initial -1 only for a count whose update_unread_count call was
\* made without throwing.
C33_GuardHoldsLastForwarded ==
    lastUnreadCount # -1 =>
        /\ sent # <<>>
        /\ sent[Len(sent)] = lastUnreadCount

----------------------------------------------------------------------------
\* Claims on the polling fallback

\* the count the title shows, if any, is the last forwarded value and was
\* the last command
Forwarded ==
    parseUnreadCount(title) # Null =>
        /\ sent # <<>>
        /\ sent[Len(sent)] = parseUnreadCount(title)[1]
        /\ lastUnreadCount = parseUnreadCount(title)[1]

\* C34: with the bridge present, init() run and no observer attached, a title
\* showing a count that is not the last forwarded value does not stay so: the
\* timer issues update_unread_count for it (unless the page changes the title
\* first); no title parses to the initial guard value -1, and while the guard
\* is -1 nothing has been sent, so the first count parsed is always forwarded.
C34_FallbackEventuallyForwards ==
    /\ (tauri /\ unreadInits > 0 /\ titleObservers = 0 /\ ~Forwarded) ~> Forwarded
    /\ [](\A t \in UnreadTitles : parseUnreadCount(t) # Some(-1))
    /\ [](lastUnreadCount = -1 => sent = <<>>)

\* the timer alone has forwarded two counts the page set after init()
C34_Witness ==
    /\ tauri
    /\ titleObservers = 0
    /\ pollTimers > 0
    /\ title = T_Dot7
    /\ sent = <<1, 7>>
    /\ lastUnreadCount = 7

----------------------------------------------------------------------------
\* Claims on the theme state

\* C35: whenever the theme style node exists, currentTheme is a theme of the
\* table and the node's content is the table's CSS for it; whenever no theme
\* style node exists, currentTheme is 'light'.
C35_ThemeStateInvariant ==
    /\ styleElement # NoNode =>
         /\ currentTheme \in DefinedThemes
         /\ ThemeText = {themes(currentTheme).text}
    /\ styleElement = NoNode => currentTheme = "light"

\* C36: a set-theme event with payload "remove" or "default" leaves no theme
\* style node attached and currentTheme 'light', and changes nothing when no
\* node existed; a set-theme event naming a theme of the table that finds no
\* node leaves exactly one node attached.
C36_RemoveThenRecreate ==
    [][/\ (themeEvent' \in {"remove", "default"} =>
             /\ styleElement' = NoNode
             /\ ThemeNodes' = {}
             /\ currentTheme' = "light"
             /\ (styleElement = NoNode => head' = head /\ currentTheme' = currentTheme))
       /\ ((themeEvent' \in DefinedThemes /\ styleElement = NoNode) =>
             /\ styleElement' # NoNode
             /\ Cardinality(ThemeNodes') = 1)]_themeVars

\* the page has a Notification API beneath whatever has been installed
HasNotificationApi ==
    \/ windowNotification = NativeFn
    \/ windowNotification[Len(windowNotification)] # "undefined"

\* how many installed functions window.Notification is wrapped in
ShimLayers ==
    Cardinality({i \in DOMAIN windowNotification :
                    windowNotification[i] \in {"shim", "iife"}})

\* C37: installing the notification shim is idempotent. After any number of
\* init() calls or evaluations of the self-installing script, in a page with
\* the bridge and a Notification API, window.Notification is wrapped in one
\* shim, one toggle-notifications listener is registered, and what was
\* captured as the original is the page's own Notification, never a shim.
C37_InstallIsIdempotent ==
    (tauri /\ HasNotificationApi /\ notifInits > 0) =>
        /\ ShimLayers = 1
        /\ toggleListeners = 1
        /\ Tail(windowNotification) = NativeFn
        /\ (interceptor => originalNotification = NativeFn)

\* C38: when init() fails partway (intercept() throws because the bridge or
\* the original Notification is missing), window.Notification is what it was
\* before the call, and no interceptor is kept, so that a later init()
\* attempts the installation again.
C38_FailedInstallLeavesPageUntouched ==
    [][(notifInits' # notifInits /\ console' = <<"failed-to-initialize">>) =>
          /\ windowNotification' = windowNotification
          /\ interceptor' = FALSE]_vars

\* the last construction went through the self-installing script's function
IifeConstructed == lastConstruct.done /\ lastConstruct.top = "iife"

\* C39 as stated: a construction through the self-installing script's
\* function either issues one handle_notification command and constructs no
\* page notification (bridge available), or constructs the original
\* notification and issues no command (otherwise).
C39_ExactlyOneOfTwoPaths ==
    IifeConstructed =>
        IF tauri
        THEN /\ lastConstruct.commands =
                    <<handle_notification_v2(lastConstruct.title, lastConstruct.options)>>
             /\ lastConstruct.originals = 0
        ELSE /\ lastConstruct.originals = 1
             /\ lastConstruct.commands = <<>>

\* C39 amended: with the bridge available the construction issues one
\* handle_notification command and constructs no page notification;
\* otherwise it issues no command and constructs the original notification
\* if the page has one, and does nothing if it has none. It never does both.
C39_OnePathAtMost ==
    IifeConstructed =>
        IF tauri
        THEN /\ lastConstruct.commands =
                    <<handle_notification_v2(lastConstruct.title, lastConstruct.options)>>
             /\ lastConstruct.originals = 0
        ELSE /\ lastConstruct.commands = <<>>
             /\ lastConstruct.originals = IF HasNotificationApi THEN 1 ELSE 0

C39_Witness ==
    /\ IifeConstructed
    /\ ~tauri
    /\ ~HasNotificationApi
    /\ lastConstruct.originals = 0
    /\ lastConstruct.commands = <<>>

----------------------------------------------------------------------------
\* Claims on what the bootstrap installs

\* the host matches the pattern of some supported platform
MatchesSomePlatform(host) ==
    \E i \in DOMAIN PLATFORM_PATTERNS : RegexTest(PLATFORM_PATTERNS[i].pattern, host)

\* no module has been initialized and the page is as it was loaded
NothingInstalled ==
    /\ bootstrap.trace = <<>>
    /\ ~interceptor /\ windowNotification = NativeFn /\ toggleListeners = 0
    /\ unreadInits = 0 /\ titleObservers = 0 /\ pollTimers = 0 /\ sent = <<>>
    /\ themeInits = 0 /\ themeListeners = 0 /\ styleElement = NoNode
    /\ keydownListeners = 0
    /\ privacyInits = 0 /\ privacyListeners = 0
    /\ xhrOpen = NativeFn /\ windowFetch = NativeFn
    /\ head = <<>>
    /\ console = <<>>

\* C40: after the bootstrap has run, if the page's host matches no supported
\* platform nothing is installed; otherwise the inits were called in the order
\* notifications, unread counter, theme, privacy, with the keyboard shortcuts
\* called (between theme and privacy) exactly when the platform is Messenger
\* or Facebook, and when none of them threw each module is installed.
C40_BootstrapInstallsByPlatform ==
    bootstrap.runs > 0 =>
        IF ~MatchesSomePlatform(bootstrap.host)
        THEN NothingInstalled
        ELSE /\ SelectSeq(bootstrap.trace, LAMBDA m : m # "shortcuts")
                  = <<"notifications", "unread", "theme", "privacy">>
             /\ ("shortcuts" \in bootstrap.called
                    <=> bootstrap.platform \in {"Messenger", "Facebook"})
             /\ (keydownListeners > 0 => bootstrap.platform \in {"Messenger", "Facebook"})
             /\ (bootstrap.threw = {} =>
                    /\ interceptor
                    /\ unreadInits > 0
                    /\ themeInits > 0
                    /\ GuardInstalled
                    /\ (keydownListeners > 0
                          <=> bootstrap.platform \in {"Messenger", "Facebook"}))

\* on instagram.com the four inits ran in order and no shortcut listener exists
C40_Witness ==
    /\ bootstrap.runs = 1
    /\ bootstrap.host = <<"www", ".", "instagram", ".", "com">>
    /\ bootstrap.trace = <<"notifications", "unread", "theme", "privacy">>
    /\ bootstrap.threw = {}
    /\ interceptor /\ unreadInits = 1 /\ themeInits = 1 /\ GuardInstalled
    /\ keydownListeners = 0

====
